---- MODULE Spec2Model ----
(***************************************************************************)
(* Model of quagga's content-partitioning engine, src/template/split.rs:   *)
(* split_into_parts and the functions it calls.                            *)
(*                                                                         *)
(* A string is a sequence of characters, each character a one-character    *)
(* TLA+ string.  A part-template fragment is a sequence of tokens: a token *)
(* is a literal character or one of the three placeholders, which          *)
(* str::replace substitutes as a unit.                                     *)
(***************************************************************************)
EXTENDS Naturals, Integers, Sequences, FiniteSets

(* ------------------------------ bounds --------------------------------- *)
MaxFiles == 2

MaxChars == 4

MaxHeaderLen == 1

MaxFooterLen == 1

MaxBudget == 9

(* ------------------------------ alphabet ------------------------------- *)
NL == "\n"

CR == "\r"

FileChars == {"a", NL}

PartNumberTag == "<part-number>"

TotalPartsTag == "<total-parts>"

PartsRemainingTag == "<parts-remaining>"

Placeholders == {PartNumberTag, TotalPartsTag, PartsRemainingTag}

(* --------------------------- string helpers ---------------------------- *)
RECURSIVE Concat(_)
Concat(ss) == IF ss = <<>> THEN <<>> ELSE Head(ss) \o Concat(Tail(ss))

RECURSIVE SumSeq(_)
SumSeq(ns) == IF ns = <<>> THEN 0 ELSE Head(ns) + SumSeq(Tail(ns))

Repeat(c, n) == [k \in 1..n |-> c]

\* str::chars().count(): every character of the model alphabet is one char
CharCount(s) == Len(s)

\* UTF-8 width of one character
\* the box-drawing characters U+251C, U+2514, U+2502 and U+2500 of the tree
Box == [tee |-> "u251C", corner |-> "u2514", vertical |-> "u2502", horizontal |-> "u2500"]

Utf8Width(c) ==
    IF c \in {"é"} THEN 2
    ELSE IF c \in {Box.tee, Box.corner, Box.vertical, Box.horizontal} THEN 3 ELSE 1

\* str::len(): the length in bytes
ByteLen(s) == SumSeq([k \in 1..Len(s) |-> Utf8Width(s[k])])

\* usize::saturating_sub
SaturatingSub(a, b) == IF a >= b THEN a - b ELSE 0

\* usize::to_string(): decimal digits, most significant first
Digit(d) == <<"0", "1", "2", "3", "4", "5", "6", "7", "8", "9">>[d + 1]

RECURSIVE to_string(_)
to_string(n) == IF n < 10 THEN <<Digit(n)>> ELSE to_string(n \div 10) \o <<Digit(n % 10)>>

(* ------------------------- str::lines() -------------------------------- *)
\* a line ended by "\n" loses one "\r" that directly precedes the "\n"
StripCR(line) ==
    IF line /= <<>> /\ line[Len(line)] = CR THEN SubSeq(line, 1, Len(line) - 1) ELSE line

\* str::lines(): split after every "\n"; the terminator (and a "\r" before
\* it) is not part of the line; a last line without "\n" is kept when it is
\* non-empty, so "" has no lines and "a\n" has one
RECURSIVE LinesFrom(_, _, _, _)
LinesFrom(s, k, cur, acc) ==
    IF k > Len(s) THEN (IF cur = <<>> THEN acc ELSE Append(acc, cur))
    ELSE IF s[k] = NL THEN LinesFrom(s, k + 1, <<>>, Append(acc, StripCR(cur)))
    ELSE LinesFrom(s, k + 1, Append(cur, s[k]), acc)

Lines(s) == LinesFrom(s, 1, <<>>, <<>>)

(* ------------------------- split_file_by_lines ------------------------- *)
\* variant: the chunk is closed as soon as the line fills it to the limit
SplitLineStep_inclusive(st, line, max_chunk_size) ==
    LET line_with_newline_chars == CharCount(line) + 1
        flush == /\ st.current_chunk_chars + line_with_newline_chars >= max_chunk_size
                 /\ st.current_chunk /= <<>>
        base == IF flush
                THEN [chunks |-> Append(st.chunks,
                                        SubSeq(st.current_chunk, 1, Len(st.current_chunk) - 1)),
                      current_chunk |-> <<>>,
                      current_chunk_chars |-> 0]
                ELSE st
    IN  [chunks |-> base.chunks,
         current_chunk |-> base.current_chunk \o line \o <<NL>>,
         current_chunk_chars |-> base.current_chunk_chars + line_with_newline_chars]

\* variant: an empty line is not added to any chunk
SplitLineStep_skip_empty(st, line, max_chunk_size) ==
    LET line_with_newline_chars == CharCount(line) + 1
        flush == /\ st.current_chunk_chars + line_with_newline_chars > max_chunk_size
                 /\ st.current_chunk /= <<>>
        base == IF flush
                THEN [chunks |-> Append(st.chunks,
                                        SubSeq(st.current_chunk, 1, Len(st.current_chunk) - 1)),
                      current_chunk |-> <<>>,
                      current_chunk_chars |-> 0]
                ELSE st
    IN  IF line = <<>> THEN st
        ELSE [chunks |-> base.chunks,
              current_chunk |-> base.current_chunk \o line \o <<NL>>,
              current_chunk_chars |-> base.current_chunk_chars + line_with_newline_chars]

\* one iteration of the loop over file_content.lines()
SplitLineStep(st, line, max_chunk_size) ==
    LET line_with_newline_chars == CharCount(line) + 1
        flush == /\ st.current_chunk_chars + line_with_newline_chars > max_chunk_size
                 /\ st.current_chunk /= <<>>
        base == IF flush
                THEN [chunks |-> Append(st.chunks,
                                        SubSeq(st.current_chunk, 1, Len(st.current_chunk) - 1)),
                      current_chunk |-> <<>>,
                      current_chunk_chars |-> 0]
                ELSE st
    IN  [chunks |-> base.chunks,
         current_chunk |-> base.current_chunk \o line \o <<NL>>,
         current_chunk_chars |-> base.current_chunk_chars + line_with_newline_chars]

RECURSIVE SplitLinesLoop(_, _, _)
SplitLinesLoop(st, lines, max_chunk_size) ==
    IF lines = <<>> THEN st
    ELSE SplitLinesLoop(SplitLineStep(st, Head(lines), max_chunk_size), Tail(lines), max_chunk_size)

\* variant: a line that does not fit in a chunk is cut after its first
\* character instead of being kept whole
CutLongLines(lines, max_chunk_size) ==
    Concat([k \in 1..Len(lines) |->
              IF Len(lines[k]) + 1 > max_chunk_size /\ Len(lines[k]) >= 2
              THEN <<SubSeq(lines[k], 1, 1), SubSeq(lines[k], 2, Len(lines[k]))>>
              ELSE <<lines[k]>>])

split_file_by_lines_cutting(file_content, max_chunk_size) ==
    LET st == SplitLinesLoop([chunks |-> <<>>, current_chunk |-> <<>>, current_chunk_chars |-> 0],
                             CutLongLines(Lines(file_content), max_chunk_size), max_chunk_size)
    IN  IF st.current_chunk /= <<>>
        THEN Append(st.chunks, SubSeq(st.current_chunk, 1, Len(st.current_chunk) - 1))
        ELSE st.chunks

split_file_by_lines(file_content, max_chunk_size) ==
    LET st == SplitLinesLoop([chunks |-> <<>>, current_chunk |-> <<>>, current_chunk_chars |-> 0],
                             Lines(file_content), max_chunk_size)
    IN  IF st.current_chunk /= <<>>
        THEN Append(st.chunks, SubSeq(st.current_chunk, 1, Len(st.current_chunk) - 1))
        ELSE st.chunks

(* ------------------------- placeholders -------------------------------- *)
\* text.replace(tag, value) for the three tags: every placeholder token
\* becomes the characters of its value, every other character stays
ReplaceTags(text, pn, tp, pr) ==
    Concat([k \in 1..Len(text) |->
              IF text[k] = PartNumberTag THEN pn
              ELSE IF text[k] = TotalPartsTag THEN tp
              ELSE IF text[k] = PartsRemainingTag THEN pr
              ELSE <<text[k]>>])

\* variant: parts_remaining counts the current part as remaining
replace_placeholders_inclusive(text, part_number, total_parts) ==
    LET parts_remaining == SaturatingSub(total_parts + 1, part_number)
    IN  ReplaceTags(text, to_string(part_number), to_string(total_parts),
                    to_string(parts_remaining))

replace_placeholders(text, part_number, total_parts) ==
    LET parts_remaining == SaturatingSub(total_parts, part_number)
    IN  ReplaceTags(text, to_string(part_number), to_string(total_parts),
                    to_string(parts_remaining))

\* variant: a two-character stand-in
Sentinel_short == <<"9", "9">>

Sentinel == <<"9", "9", "9">>

\* variant: a newline is counted for the pending text even when it is empty
calculate_part_overhead_pending_always(tpl) ==
    LET part_header == ReplaceTags(tpl.header, Sentinel, Sentinel, Sentinel)
        part_footer == ReplaceTags(tpl.footer, Sentinel, Sentinel, Sentinel)
        part_pending == ReplaceTags(tpl.pending, Sentinel, Sentinel, Sentinel)
    IN  (CharCount(part_header) + 1) + (CharCount(part_footer) + 1)
        + (CharCount(part_pending) + 1)

calculate_part_overhead(tpl) ==
    LET part_header == ReplaceTags(tpl.header, Sentinel, Sentinel, Sentinel)
        part_footer == ReplaceTags(tpl.footer, Sentinel, Sentinel, Sentinel)
        part_pending == ReplaceTags(tpl.pending, Sentinel, Sentinel, Sentinel)
    IN  (CharCount(part_header) + 1) + (CharCount(part_footer) + 1)
        + (IF tpl.pending /= <<>> THEN CharCount(part_pending) + 1 ELSE 0)

(* ------------------------- single part --------------------------------- *)
\* variant: the boundary value is rejected
fits_in_single_part_strict(hdr, fs, ftr, max) ==
    LET total_length == SumSeq([k \in 1..Len(fs) |-> CharCount(fs[k]) + 1])
                        + (IF hdr /= <<>> THEN CharCount(hdr) + 1 ELSE 0)
                        + CharCount(ftr)
    IN  total_length < max

\* variant: a newline is counted after a non-empty footer
fits_in_single_part_footer_newline(hdr, fs, ftr, max) ==
    LET total_length == SumSeq([k \in 1..Len(fs) |-> CharCount(fs[k]) + 1])
                        + (IF hdr /= <<>> THEN CharCount(hdr) + 1 ELSE 0)
                        + (IF ftr /= <<>> THEN CharCount(ftr) + 1 ELSE 0)
    IN  total_length <= max

fits_in_single_part(hdr, fs, ftr, max) ==
    LET total_length == SumSeq([k \in 1..Len(fs) |-> CharCount(fs[k]) + 1])
                        + (IF hdr /= <<>> THEN CharCount(hdr) + 1 ELSE 0)
                        + CharCount(ftr)
    IN  total_length <= max

\* variant: the footer is followed by a newline, as in a multi-part result
assemble_single_part_newline(hdr, fs, ftr) ==
    << (IF hdr /= <<>> THEN hdr \o <<NL>> ELSE <<>>)
       \o Concat([k \in 1..Len(fs) |-> fs[k] \o <<NL>>])
       \o (IF ftr /= <<>> THEN ftr \o <<NL>> ELSE <<>>) >>

assemble_single_part(hdr, fs, ftr) ==
    << (IF hdr /= <<>> THEN hdr \o <<NL>> ELSE <<>>)
       \o Concat([k \in 1..Len(fs) |-> fs[k] \o <<NL>>])
       \o ftr >>

(* ------------------------- split planner ------------------------------- *)
\* index is 0-based as in the source; fs[index + 1] is the file
calculate_file_length(hdr, ftr, fs, index, file) ==
    LET is_first == index = 0 /\ hdr /= <<>>
        is_last == index = Len(fs) - 1 /\ ftr /= <<>>
        header_len == IF is_first THEN CharCount(hdr) + 1 ELSE 0
        footer_len == IF is_last THEN CharCount(ftr) + 1 ELSE 0
    IN  header_len + CharCount(file) + 1 + footer_len

\* the planner's accumulators: parts, current_part (its file_chunks) and
\* current_part_size
\* variant: the open part is closed and pushed even when it is empty
start_new_part_always(st) ==
    [parts |-> Append(st.parts, st.current_part),
     current_part |-> <<>>,
     current_part_size |-> 0]

start_new_part_if_needed(st) ==
    IF st.current_part /= <<>>
    THEN [parts |-> Append(st.parts, st.current_part),
          current_part |-> <<>>,
          current_part_size |-> 0]
    ELSE st

add_file_to_part(st, file, file_length) ==
    [st EXCEPT !.current_part = Append(@, file \o <<NL>>),
               !.current_part_size = @ + file_length]

\* variant: the chunk is pushed without its newline
add_chunk_to_part_bare(st, chunk) ==
    [st EXCEPT !.current_part = Append(@, chunk),
               !.current_part_size = @ + CharCount(chunk) + 1]

add_chunk_to_part(st, chunk) ==
    [st EXCEPT !.current_part = Append(@, chunk \o <<NL>>),
               !.current_part_size = @ + CharCount(chunk) + 1]

\* variant: the first chunk joins the part that is open
RECURSIVE AddChunksLoop_joining(_, _)
AddChunksLoop_joining(st, chunks) ==
    IF chunks = <<>> THEN st
    ELSE AddChunksLoop_joining(
            add_chunk_to_part(IF st.current_part_size = 0 \/ Len(st.current_part) > 1
                              THEN start_new_part_if_needed(st) ELSE st,
                              Head(chunks)),
            Tail(chunks))

RECURSIVE AddChunksLoop(_, _)
AddChunksLoop(st, chunks) ==
    IF chunks = <<>> THEN st
    ELSE AddChunksLoop(add_chunk_to_part(start_new_part_if_needed(st), Head(chunks)),
                       Tail(chunks))

\* variant: plain subtraction, which underflows below zero
max_chunk_size_unchecked(max_size, part_overhead, footer_len, header_len) ==
    max_size - (part_overhead + footer_len + header_len)

\* variant: the whole budget is the chunk limit
max_chunk_size_whole_budget(max_size, part_overhead, footer_len, header_len) ==
    max_size

\* the chunk limit of handle_large_file
max_chunk_size(max_size, part_overhead, footer_len, header_len) ==
    SaturatingSub(max_size, part_overhead + footer_len + header_len)

LargeFileChunks(file, part_overhead, footer_len, header_len, max_size) ==
    split_file_by_lines(file,
        max_chunk_size(max_size, part_overhead, footer_len, header_len))

handle_large_file(st, file, part_overhead, footer_len, header_len, max_size) ==
    AddChunksLoop(st, LargeFileChunks(file, part_overhead, footer_len, header_len, max_size))

\* the test that sends a file to the line splitter
IsLargeFile(file, part_overhead, max_size) == ByteLen(file) + part_overhead > max_size

handle_exceeding_size(st, file, part_overhead, footer_len, header_len, max_size) ==
    IF IsLargeFile(file, part_overhead, max_size)
    THEN handle_large_file(st, file, part_overhead, footer_len, header_len, max_size)
    ELSE add_file_to_part(start_new_part_if_needed(st), file, ByteLen(file) + 1)

(* ------------------------- part assembler ------------------------------ *)
\* variant: the part header comes before the global header and the global
\* footer before the part footer
AssemblePart_wrapper_outside(chunks, tpl, hdr, ftr, idx, total_parts) ==
    replace_placeholders(tpl.header, idx + 1, total_parts) \o <<NL>>
    \o (IF idx = 0 /\ hdr /= <<>> THEN hdr \o <<NL>> ELSE <<>>)
    \o Concat(chunks)
    \o (IF idx = total_parts - 1 /\ ftr /= <<>> THEN ftr \o <<NL>> ELSE <<>>)
    \o replace_placeholders(tpl.footer, idx + 1, total_parts) \o <<NL>>
    \o (IF idx < total_parts - 1 /\ tpl.pending /= <<>>
        THEN replace_placeholders(tpl.pending, idx + 1, total_parts) \o <<NL>>
        ELSE <<>>)

\* the part at 0-based index idx of total_parts
AssemblePart(chunks, tpl, hdr, ftr, idx, total_parts) ==
    (IF idx = 0 /\ hdr /= <<>> THEN hdr \o <<NL>> ELSE <<>>)
    \o replace_placeholders(tpl.header, idx + 1, total_parts) \o <<NL>>
    \o Concat(chunks)
    \o replace_placeholders(tpl.footer, idx + 1, total_parts) \o <<NL>>
    \o (IF idx < total_parts - 1 /\ tpl.pending /= <<>>
        THEN replace_placeholders(tpl.pending, idx + 1, total_parts) \o <<NL>>
        ELSE <<>>)
    \o (IF idx = total_parts - 1 /\ ftr /= <<>> THEN ftr \o <<NL>> ELSE <<>>)

\* variant: total_parts is the number of parts assembled so far
assemble_multiple_parts_running(ps, tpl, hdr, ftr) ==
    [k \in 1..Len(ps) |->
        (IF k = 1 /\ hdr /= <<>> THEN hdr \o <<NL>> ELSE <<>>)
        \o replace_placeholders(tpl.header, k, k) \o <<NL>>
        \o Concat(ps[k])
        \o replace_placeholders(tpl.footer, k, k) \o <<NL>>
        \o (IF k < Len(ps) /\ tpl.pending /= <<>>
            THEN replace_placeholders(tpl.pending, k, Len(ps)) \o <<NL>>
            ELSE <<>>)
        \o (IF k = Len(ps) /\ ftr /= <<>> THEN ftr \o <<NL>> ELSE <<>>)]

assemble_multiple_parts(ps, tpl, hdr, ftr) ==
    [k \in 1..Len(ps) |-> AssemblePart(ps[k], tpl, hdr, ftr, k - 1, Len(ps))]

(* ------------------------- inputs -------------------------------------- *)
Strings(n) == UNION {[1..k -> FileChars] : k \in 0..n}

TotalChars(fs) == SumSeq([k \in 1..Len(fs) |-> Len(fs[k])])

FileLists ==
    UNION {{fs \in [1..n -> Strings(MaxChars)] : TotalChars(fs) <= MaxChars} : n \in 0..MaxFiles}

Headers == {Repeat("H", n) : n \in 0..MaxHeaderLen}

Footers == {Repeat("F", n) : n \in 0..MaxFooterLen}

PartHeaders == {<<>>, <<PartNumberTag, "/", TotalPartsTag>>}

PartFooters == {<<>>, <<"E", PartNumberTag>>}

PartPendings == {<<>>, <<PartsRemainingTag, "W">>}

PartTemplates == [header : PartHeaders, footer : PartFooters, pending : PartPendings]

(* ------------------------- state --------------------------------------- *)
\* the arguments and locals of split_into_parts, and call: the state of a
\* call of one of the other functions (the line splitter on its own, the
\* file reader, the file and clipboard output), NoCall when there is none
VARIABLES header, files, footer, part_template, max_part_chars,
          pc, i, parts, current_part, current_part_size, result, origin, call

vars == <<header, files, footer, part_template, max_part_chars,
          pc, i, parts, current_part, current_part_size, result, origin, call>>

NoCall == [op |-> "none"]

inputs == <<header, files, footer, part_template, max_part_chars>>

part_overhead == calculate_part_overhead(part_template)

Planner == [parts |-> parts, current_part |-> current_part,
            current_part_size |-> current_part_size]

\* split_into_parts has been called and nothing has run yet
PlannerStart ==
    /\ pc = "call"
    /\ i = 0
    /\ parts = <<>>
    /\ current_part = <<>>
    /\ current_part_size = 0
    /\ result = <<>>
    /\ origin = <<>>
    /\ call = NoCall

Init ==
    /\ header \in Headers
    /\ files \in FileLists
    /\ footer \in Footers
    /\ part_template \in PartTemplates
    /\ max_part_chars \in 0..MaxBudget
    /\ PlannerStart

\* split_into_parts, fast path: everything fits in one part
SinglePart ==
    /\ pc = "call"
    /\ fits_in_single_part(header, files, footer, max_part_chars)
    /\ result' = assemble_single_part(header, files, footer)
    /\ pc' = "done"
    /\ UNCHANGED <<call, inputs, i, parts, current_part, current_part_size, origin>>

\* split_into_parts, slow path: enter create_split_plan
BeginSplitPlan ==
    /\ pc = "call"
    /\ ~fits_in_single_part(header, files, footer, max_part_chars)
    /\ pc' = "plan"
    /\ UNCHANGED <<call, inputs, i, parts, current_part, current_part_size, result, origin>>

FileExceeds(file) ==
    current_part_size + calculate_file_length(header, footer, files, i, file) + part_overhead
        > max_part_chars

SetPlanner(st) ==
    /\ parts' = st.parts
    /\ current_part' = st.current_part
    /\ current_part_size' = st.current_part_size

\* one iteration of the loop of create_split_plan: the file fits
PlanFileFits ==
    /\ pc = "plan"
    /\ i < Len(files)
    /\ LET file == files[i + 1] IN
        /\ ~FileExceeds(file)
        /\ SetPlanner(add_file_to_part(Planner, file,
                        calculate_file_length(header, footer, files, i, file)))
        /\ origin' = Append(origin, [file |-> i, split |-> FALSE])
    /\ i' = i + 1
    /\ UNCHANGED <<call, inputs, pc, result>>

\* one iteration of the loop of create_split_plan: the file does not fit
PlanFileExceeds ==
    /\ pc = "plan"
    /\ i < Len(files)
    /\ LET file == files[i + 1] IN
        /\ FileExceeds(file)
        /\ SetPlanner(handle_exceeding_size(Planner, file, part_overhead,
                        ByteLen(footer), ByteLen(header), max_part_chars))
        /\ origin' = origin \o
              (IF IsLargeFile(file, part_overhead, max_part_chars)
               THEN [k \in 1..Len(LargeFileChunks(file, part_overhead, ByteLen(footer),
                                                  ByteLen(header), max_part_chars))
                       |-> [file |-> i, split |-> TRUE]]
               ELSE <<[file |-> i, split |-> FALSE]>>)
    /\ i' = i + 1
    /\ UNCHANGED <<call, inputs, pc, result>>

\* the end of create_split_plan: the remaining part is pushed if non-empty
FinishSplitPlan ==
    /\ pc = "plan"
    /\ i = Len(files)
    /\ parts' = IF current_part /= <<>> THEN Append(parts, current_part) ELSE parts
    /\ pc' = "assemble"
    /\ UNCHANGED <<call, inputs, i, current_part, current_part_size, result, origin>>

AssembleMultipleParts ==
    /\ pc = "assemble"
    /\ result' = assemble_multiple_parts(parts, part_template, header, footer)
    /\ pc' = "done"
    /\ UNCHANGED <<call, inputs, i, parts, current_part, current_part_size, origin>>

Next ==
    \/ SinglePart
    \/ BeginSplitPlan
    \/ PlanFileFits
    \/ PlanFileExceeds
    \/ FinishSplitPlan
    \/ AssembleMultipleParts

Spec == Init /\ [][Next]_vars

(* ------------------------- vocabulary of the claims -------------------- *)
IsPrefix(p, s) == Len(p) <= Len(s) /\ SubSeq(s, 1, Len(p)) = p

IsSuffix(p, s) == Len(p) <= Len(s) /\ SubSeq(s, Len(s) - Len(p) + 1, Len(s)) = p

Contains(s, p) == \E k \in 0..(Len(s) - Len(p)) : SubSeq(s, k + 1, k + Len(p)) = p

Occurrences(s, c) == Cardinality({k \in 1..Len(s) : s[k] = c})

\* the blocks in their order, each followed by one newline separator
BlocksWithNewlines == Concat([k \in 1..Len(files) |-> files[k] \o <<NL>>])

\* the call took the fast path
Unsplit == fits_in_single_part(header, files, footer, max_part_chars)

\* the wrapper text of part k (1-based) of a multi-part result: what comes
\* before the chunks and what comes after them
WrapperBefore(k) ==
    (IF k = 1 /\ header /= <<>> THEN header \o <<NL>> ELSE <<>>)
    \o replace_placeholders(part_template.header, k, Len(result)) \o <<NL>>

WrapperAfter(k) ==
    replace_placeholders(part_template.footer, k, Len(result)) \o <<NL>>
    \o (IF k < Len(result) /\ part_template.pending /= <<>>
        THEN replace_placeholders(part_template.pending, k, Len(result)) \o <<NL>>
        ELSE <<>>)
    \o (IF k = Len(result) /\ footer /= <<>> THEN footer \o <<NL>> ELSE <<>>)

\* a part without the text before and after it; the part itself when the
\* text is not there to remove
Strip(part, before, after) ==
    IF IsPrefix(before, part) /\ IsSuffix(after, part) /\ Len(before) + Len(after) <= Len(part)
    THEN SubSeq(part, Len(before) + 1, Len(part) - Len(after))
    ELSE part

\* the content of part k of the result with the wrapper text removed
PartContent(k) ==
    IF Unsplit
    THEN Strip(result[k], IF header /= <<>> THEN header \o <<NL>> ELSE <<>>, footer)
    ELSE Strip(result[k], WrapperBefore(k), WrapperAfter(k))

ResultContent == Concat([k \in 1..Len(result) |-> PartContent(k)])

(* ------------------------- C1 ------------------------------------------ *)
\* C1: content preservation - once split_into_parts has returned, the parts
\* with their wrapper text removed, concatenated in part order, are the
\* original blocks in order, each followed by one newline
C1_ContentPreserved == pc = "done" => ResultContent = BlocksWithNewlines

(* ------------------------- C2 ------------------------------------------ *)
\* part k of the plan holds exactly one line
HoldsSingleLine(k) ==
    /\ Len(parts[k]) = 1
    /\ Occurrences(parts[k][1], NL) = 1

\* C2: budget bound - in a result of two or more parts every part has at
\* most max_part_chars characters, unless the part holds one single line
C2_BudgetBound ==
    (pc = "done" /\ Len(result) >= 2) =>
        \A k \in 1..Len(result) :
            CharCount(result[k]) <= max_part_chars \/ HoldsSingleLine(k)

(* ------------------------- C4 ------------------------------------------ *)
\* C4: never zero parts - split_into_parts returns at least one part, and
\* create_split_plan returns exactly one part plan for zero blocks
C4_NeverZeroParts ==
    /\ pc = "done" => Len(result) >= 1
    /\ (pc = "assemble" /\ files = <<>>) => Len(parts) = 1

(* ------------------------- C3 ------------------------------------------ *)
\* the chunks of the plan in the order they were added
PlanChunks == Concat(parts)

\* the positions in PlanChunks of the chunks that came from file k (0-based)
ChunksOfFile(k) ==
    SelectSeq([j \in 1..Len(origin) |-> j], LAMBDA j : origin[j].file = k)

\* the lines held by the chunks of file k, in chunk order
LinesInChunksOf(k) ==
    LET js == ChunksOfFile(k)
    IN  Concat([n \in 1..Len(js) |-> Lines(PlanChunks[js[n]])])

\* C3: line atomicity - every line of every block is whole in exactly one
\* chunk of exactly one part: a block placed whole is one chunk, the chunks
\* of a block split at line boundaries hold the block's lines, each once and
\* in order, and every part is its wrapper text around its chunks
C3_LineAtomicity ==
    pc = "done" =>
        IF Unsplit
        THEN Len(result) = 1 /\ PartContent(1) = BlocksWithNewlines
        ELSE /\ Len(origin) = Len(PlanChunks)
             /\ \A j \in 1..Len(origin) : \A n \in 1..Len(origin) :
                    j <= n => origin[j].file <= origin[n].file
             /\ \A k \in 0..(Len(files) - 1) :
                    LET js == ChunksOfFile(k)
                    IN  IF \E n \in 1..Len(js) : ~origin[js[n]].split
                        THEN Len(js) = 1 /\ PlanChunks[js[1]] = files[k + 1] \o <<NL>>
                        ELSE LinesInChunksOf(k) = Lines(files[k + 1])
             /\ Len(result) = Len(parts)
             /\ \A p \in 1..Len(result) :
                    result[p] = WrapperBefore(p) \o Concat(parts[p]) \o WrapperAfter(p)

\* a block was split into chunks in different parts and one of its lines is
\* longer than the budget
C3_Witness ==
    /\ pc = "done"
    /\ Len(result) >= 2
    /\ \E k \in 0..(Len(files) - 1) :
        /\ Len(ChunksOfFile(k)) >= 2
        /\ \A n \in 1..Len(ChunksOfFile(k)) : origin[ChunksOfFile(k)[n]].split
        /\ \E n \in 1..Len(Lines(files[k + 1])) :
              /\ Len(Lines(files[k + 1])[n]) >= 2
              /\ Len(Lines(files[k + 1])[n]) > max_part_chars

(* ------------------------- C5 ------------------------------------------ *)
\* the size the fast path compares with the budget
UnsplitSize ==
    SumSeq([k \in 1..Len(files) |-> Len(files[k]) + 1])
    + (IF header /= <<>> THEN Len(header) + 1 ELSE 0)
    + Len(footer)

\* the unsplit part: header line, every block and a newline, footer
UnsplitPart ==
    (IF header /= <<>> THEN header \o <<NL>> ELSE <<>>) \o BlocksWithNewlines \o footer

\* C5: fast path - the result is the one unsplit part exactly when
\* UnsplitSize <= max_part_chars
C5_FastPath ==
    pc = "done" => ((result = <<UnsplitPart>>) <=> (UnsplitSize <= max_part_chars))

\* the boundary: header, blocks and footer fill the budget exactly
C5_Witness ==
    /\ pc = "done"
    /\ UnsplitSize = max_part_chars
    /\ header /= <<>> /\ footer /= <<>>
    /\ Len(files) >= 2 /\ files[1] /= <<>> /\ files[2] /= <<>>
    /\ result = <<UnsplitPart>>

(* ------------------------- C6 ------------------------------------------ *)
RECURSIVE Join(_, _)
Join(ss, sep) ==
    IF ss = <<>> THEN <<>>
    ELSE IF Len(ss) = 1 THEN Head(ss)
    ELSE Head(ss) \o sep \o Join(Tail(ss), sep)

\* the size as the testable property writes it: no newline after the header
SizeWithoutHeaderNewline ==
    Len(header) + SumSeq([k \in 1..Len(files) |-> Len(files[k]) + 1]) + Len(footer)

\* header + "\n" + blocks.join("\n") + "\n" + footer, the header and its
\* newline omitted if the header is empty, the blocks and their newline
\* omitted if there are none
JoinedPart ==
    (IF header /= <<>> THEN header \o <<NL>> ELSE <<>>)
    \o (IF files /= <<>> THEN Join(files, <<NL>>) \o <<NL>> ELSE <<>>)
    \o footer

\* C6 as stated: when len(header) + sum(len(b)+1) + len(footer) <= budget
\* the result is the one part header + "\n" + blocks.join("\n") + "\n" + footer
C6_SinglePartAsStated ==
    (pc = "done" /\ SizeWithoutHeaderNewline <= max_part_chars) => result = <<JoinedPart>>

\* C6 amended: when the size that counts the header's newline is within the
\* budget, the result is the one part made of the header and a newline (if
\* the header is non-empty), every block followed by a newline, and the footer
C6_SinglePart ==
    (pc = "done" /\ UnsplitSize <= max_part_chars) =>
        /\ Len(result) = 1
        /\ result[1] = UnsplitPart

\* a fast-path result of several blocks without header and footer
C6_Witness ==
    /\ pc = "done"
    /\ UnsplitSize <= max_part_chars
    /\ Len(files) >= 2 /\ files[1] /= <<>> /\ files[2] /= <<>>
    /\ header = <<>> /\ footer = <<>>
    /\ Len(result) = 1

(* ------------------------- C7 ------------------------------------------ *)
\* C7: a one-part result carries no wrapper text - when exactly one part is
\* returned it contains no rendered part header, part footer or pending text
C7_OnePartNoWrapper ==
    (pc = "done" /\ Len(result) = 1) =>
        \A fragment \in {part_template.header, part_template.footer, part_template.pending} :
            fragment /= <<>> => ~Contains(result[1], replace_placeholders(fragment, 1, 1))

(* ------------------------- C8 ------------------------------------------ *)
\* a fragment with <part-number> = pn, <total-parts> = tp, <parts-remaining> = pr
Rendered(fragment, pn, tp, pr) ==
    ReplaceTags(fragment, to_string(pn), to_string(tp), to_string(pr))

\* the number of characters before the part header of part k
BeforePartHeader(k) == IF k = 1 /\ header /= <<>> THEN Len(header) + 1 ELSE 0

\* C8: part-count consistency - in a result of assemble_multiple_parts the
\* part header and the part footer of part k (1-based) are rendered with
\* <total-parts> = the number of parts returned and <part-number> = k
C8_PartCountConsistency ==
    (pc = "done" /\ ~Unsplit) =>
        \A k \in 1..Len(result) :
            LET total == Len(result)
                ph == Rendered(part_template.header, k, total, total - k) \o <<NL>>
                pf == Rendered(part_template.footer, k, total, total - k) \o <<NL>>
                h0 == BeforePartHeader(k)
                f0 == h0 + Len(ph) + Len(Concat(parts[k]))
            IN  /\ SubSeq(result[k], h0 + 1, h0 + Len(ph)) = ph
                /\ SubSeq(result[k], f0 + 1, f0 + Len(pf)) = pf

\* three or more parts whose part header shows both numbers
C8_Witness ==
    /\ pc = "done"
    /\ ~Unsplit
    /\ Len(result) >= 3
    /\ \E n \in 1..Len(part_template.header) : part_template.header[n] = TotalPartsTag
    /\ \E n \in 1..Len(part_template.header) : part_template.header[n] = PartNumberTag

(* ------------------------- C9 ------------------------------------------ *)
\* C9: pending text - in a result of two or more parts with a non-empty
\* pending template, part k (1-based) of total contains the pending text
\* rendered with <parts-remaining> = total - k when k < total, and the last
\* part contains no rendered pending text
C9_PendingText ==
    (pc = "done" /\ Len(result) >= 2 /\ part_template.pending /= <<>>) =>
        LET total == Len(result)
        IN  /\ \A k \in 1..(total - 1) :
                  Contains(result[k],
                           <<NL>> \o Rendered(part_template.pending, k, total, total - k) \o <<NL>>)
            /\ \A r \in 0..total :
                  ~Contains(result[total], Rendered(part_template.pending, total, total, r))

\* three or more parts and a pending template
C9_Witness ==
    /\ pc = "done"
    /\ Len(result) >= 3
    /\ part_template.pending /= <<>>
    /\ \E n \in 1..Len(part_template.pending) : part_template.pending[n] = PartsRemainingTag

(* ------------------------- C10 ----------------------------------------- *)
\* the number of places where p occurs in s
CountOccurrences(s, p) ==
    Cardinality({k \in 0..(Len(s) - Len(p)) : SubSeq(s, k + 1, k + Len(p)) = p})

\* the number of occurrences of p in all parts of the result
CountInResult(p) == SumSeq([k \in 1..Len(result) |-> CountOccurrences(result[k], p)])

\* C10: global header and footer placement - a non-empty header occurs
\* exactly once in the result, in the first part, and a non-empty footer
\* exactly once, in the last part
C10_GlobalHeaderFooter ==
    pc = "done" =>
        /\ header /= <<>> =>
              /\ CountInResult(header) = 1
              /\ CountOccurrences(result[1], header) = 1
        /\ footer /= <<>> =>
              /\ CountInResult(footer) = 1
              /\ CountOccurrences(result[Len(result)], footer) = 1

(* ------------------------- C11 ----------------------------------------- *)
\* the pieces of part k (1-based) of a result of total parts, each with the
\* newline that ends it; empty when the piece is absent
GlobalHeaderPiece(k) == IF k = 1 /\ header /= <<>> THEN header \o <<NL>> ELSE <<>>

PartHeaderPiece(k, total) == Rendered(part_template.header, k, total, total - k) \o <<NL>>

PartFooterPiece(k, total) == Rendered(part_template.footer, k, total, total - k) \o <<NL>>

PendingPiece(k, total) ==
    IF k < total /\ part_template.pending /= <<>>
    THEN Rendered(part_template.pending, k, total, total - k) \o <<NL>>
    ELSE <<>>

GlobalFooterPiece(k, total) == IF k = total /\ footer /= <<>> THEN footer \o <<NL>> ELSE <<>>

\* C11 as stated: every part is, in this order, the part header, the global
\* header (first part), the chunks, the global footer (last part), the part
\* footer and the pending text (not in the last part)
C11_OrderAsSpecified ==
    (pc = "done" /\ ~Unsplit) =>
        \A k \in 1..Len(result) :
            result[k] = PartHeaderPiece(k, Len(result)) \o GlobalHeaderPiece(k)
                        \o Concat(parts[k])
                        \o GlobalFooterPiece(k, Len(result)) \o PartFooterPiece(k, Len(result))
                        \o PendingPiece(k, Len(result))

\* C11 amended: every part is, in this order, the global header (first
\* part), the part header, the chunks in plan order, the part footer, the
\* pending text (not in the last part) and the global footer (last part)
C11_AssemblyOrder ==
    (pc = "done" /\ ~Unsplit) =>
        /\ Len(result) = Len(parts)
        /\ \A k \in 1..Len(result) :
            result[k] = GlobalHeaderPiece(k) \o PartHeaderPiece(k, Len(result))
                        \o Concat(parts[k])
                        \o PartFooterPiece(k, Len(result)) \o PendingPiece(k, Len(result))
                        \o GlobalFooterPiece(k, Len(result))

\* two or more parts with every piece present
C11_Witness ==
    /\ pc = "done"
    /\ Len(result) >= 2
    /\ header /= <<>> /\ footer /= <<>>
    /\ part_template.header /= <<>> /\ part_template.footer /= <<>>
    /\ part_template.pending /= <<>>

(* ------------------------- C12 ----------------------------------------- *)
EndsWithNewline(s) == s /= <<>> /\ s[Len(s)] = NL

\* C12: the order the tests assert - the first part starts with the global
\* header line and then the part header line, the last part ends with the
\* part footer line and then the global footer line, and every chunk, the
\* pending text and every part end with a newline
C12_OrderInTests ==
    (pc = "done" /\ ~Unsplit /\ Len(result) >= 1) =>
        LET total == Len(result)
        IN  /\ IsPrefix(GlobalHeaderPiece(1) \o PartHeaderPiece(1, total), result[1])
            /\ IsSuffix(PartFooterPiece(total, total) \o GlobalFooterPiece(total, total),
                        result[total])
            /\ \A k \in 1..total :
                  /\ EndsWithNewline(result[k])
                  /\ \A j \in 1..Len(parts[k]) : EndsWithNewline(parts[k][j])
                  /\ k < total => IsSuffix(PendingPiece(k, total), result[k])

\* a result whose first part has the global header, whose last part has the
\* global footer and is a chunk of a split block
C12_Witness ==
    /\ pc = "done"
    /\ Len(result) >= 2
    /\ header /= <<>> /\ footer /= <<>>
    /\ part_template.header /= <<>> /\ part_template.footer /= <<>>
    /\ origin /= <<>> /\ origin[Len(origin)].split

(* ------------------------- C13 ----------------------------------------- *)
\* the inputs of the tests of split_into_parts, with short wrapper texts
MaxExampleFiles == 3

MaxExampleBudget == 30

File1 == <<"F", "i", "l", "e", "1">>

File2 == <<"F", "i", "l", "e", "2">>

ExampleFiles(n) == [k \in 1..n |-> IF k % 2 = 1 THEN File1 ELSE File2]

ExampleTemplate ==
    [header |-> <<"=", "=", "P", PartNumberTag, "/", TotalPartsTag, "=", "=">>,
     footer |-> <<"=", "=", "E", PartNumberTag, "=", "=">>,
     pending |-> <<PartsRemainingTag, " ", "l", "e", "f", "t">>]

EmptyTemplate == [header |-> <<>>, footer |-> <<>>, pending |-> <<>>]

InitExample ==
    /\ header = <<"H">>
    /\ files \in {ExampleFiles(n) : n \in 0..MaxExampleFiles}
    /\ footer = <<"F">>
    /\ part_template \in {ExampleTemplate, EmptyTemplate}
    /\ max_part_chars \in 0..MaxExampleBudget
    /\ PlannerStart

SpecExample == InitExample /\ [][Next]_vars

\* header "H", blocks ["File1", "File2"], footer "F", the example's part
\* template and budget 24
ExampleInput ==
    /\ header = <<"H">>
    /\ files = <<File1, File2>>
    /\ footer = <<"F">>
    /\ part_template = ExampleTemplate
    /\ max_part_chars = 24

\* C13 as stated: the example returns the two parts
\* "==P1/2==\nH\nFile1\n==E1==\n1 left" and "==P2/2==\nFile2\nF\n==E2=="
C13_ExampleAsStated ==
    (pc = "done" /\ ExampleInput) =>
        result = << <<"=", "=", "P", "1", "/", "2", "=", "=", NL, "H", NL>> \o File1
                    \o <<NL, "=", "=", "E", "1", "=", "=", NL, "1", " ", "l", "e", "f", "t">>,
                    <<"=", "=", "P", "2", "/", "2", "=", "=", NL>> \o File2
                    \o <<NL, "F", NL, "=", "=", "E", "2", "=", "=">> >>

\* C13 amended: the example's content has 15 characters and fits the budget
\* of 24, so the result is the one part "H\nFile1\nFile2\nF"
C13_Example ==
    (pc = "done" /\ ExampleInput) =>
        result = << <<"H", NL>> \o File1 \o <<NL>> \o File2 \o <<NL, "F">> >>

\* the example has run
C13_Witness == pc = "done" /\ ExampleInput

(* ------------------------- C14 ----------------------------------------- *)
\* C14: zero blocks that fit - with no blocks, a non-empty header and footer
\* and a budget of at least chars(header) + 1 + chars(footer), the result is
\* the one part header + "\n" + footer
C14_NoFilesFit ==
    (/\ pc = "done"
     /\ files = <<>> /\ header /= <<>> /\ footer /= <<>>
     /\ max_part_chars >= Len(header) + 1 + Len(footer)) =>
        result = <<header \o <<NL>> \o footer>>

\* "H", no blocks, "F" and the smallest budget that fits, 3
C14_Witness ==
    /\ pc = "done"
    /\ files = <<>> /\ header = <<"H">> /\ footer = <<"F">>
    /\ max_part_chars = 3
    /\ result = << <<"H", NL, "F">> >>

(* ------------------------- C15 ----------------------------------------- *)
\* the planner is about to line-split the file at index i
AboutToSplit ==
    /\ pc = "plan"
    /\ i < Len(files)
    /\ FileExceeds(files[i + 1])
    /\ IsLargeFile(files[i + 1], part_overhead, max_part_chars)

\* the chunk limit the planner passes to the line splitter
ChunkLimit == max_chunk_size(max_part_chars, part_overhead, ByteLen(footer), ByteLen(header))

\* some step of the call can be taken: the guards of the steps, one per line
CanStep ==
    \/ pc = "call" /\ fits_in_single_part(header, files, footer, max_part_chars)
    \/ pc = "call" /\ ~fits_in_single_part(header, files, footer, max_part_chars)
    \/ pc = "plan" /\ i < Len(files) /\ ~FileExceeds(files[i + 1])
    \/ pc = "plan" /\ i < Len(files) /\ FileExceeds(files[i + 1])
    \/ pc = "plan" /\ i = Len(files)
    \/ pc = "assemble"

\* C15: totality under tiny budgets - for every budget the call runs to its
\* end: no step is stuck, every size is a non-negative number, the chunk
\* limit is 0 when the budget is below the overhead, and a plan whose parts
\* exceed the budget is rendered like any other, one part per part plan
C15_Total ==
    /\ pc /= "done" => CanStep
    /\ current_part_size \in Nat
    /\ i \in 0..Len(files)
    /\ AboutToSplit =>
          /\ ChunkLimit \in Nat
          /\ (max_part_chars < part_overhead + ByteLen(footer) + ByteLen(header)) => ChunkLimit = 0
    /\ (pc = "done" /\ ~Unsplit) => Len(result) = Len(parts)

\* budget 0: the call has ended with two or more parts, all over the budget
C15_Witness ==
    /\ pc = "done"
    /\ max_part_chars = 0
    /\ Len(result) >= 2
    /\ \A k \in 1..Len(result) : Len(result[k]) > max_part_chars

(* ------------------------- C16 ----------------------------------------- *)
MaxWideChars == 3
MaxWideBudget == 6

\* the loop of create_split_plan from file index idx (0-based) on
RECURSIVE PlanLoop(_, _, _, _, _, _, _)
PlanLoop(st, hdr, fs, ftr, overhead, max_size, idx) ==
    IF idx >= Len(fs) THEN st
    ELSE LET file == fs[idx + 1]
             file_length == calculate_file_length(hdr, ftr, fs, idx, file)
         IN  PlanLoop(
                IF st.current_part_size + file_length + overhead > max_size
                THEN handle_exceeding_size(st, file, overhead, ByteLen(ftr),
                                           ByteLen(hdr), max_size)
                ELSE add_file_to_part(st, file, file_length),
                hdr, fs, ftr, overhead, max_size, idx + 1)

create_split_plan(hdr, fs, ftr, tpl, max_size) ==
    LET st == PlanLoop([parts |-> <<>>, current_part |-> <<>>, current_part_size |-> 0],
                       hdr, fs, ftr, calculate_part_overhead(tpl), max_size, 0)
    IN  IF st.current_part /= <<>> THEN Append(st.parts, st.current_part) ELSE st.parts

split_into_parts(hdr, fs, ftr, tpl, max_size) ==
    IF fits_in_single_part(hdr, fs, ftr, max_size)
    THEN assemble_single_part(hdr, fs, ftr)
    ELSE assemble_multiple_parts(create_split_plan(hdr, fs, ftr, tpl, max_size),
                                 tpl, hdr, ftr)

\* inputs with a two-byte character
WideChars == FileChars \cup {"é"}

WideStrings(n) == UNION {[1..k -> WideChars] : k \in 0..n}

WideFileLists ==
    UNION {{fs \in [1..n -> WideStrings(MaxWideChars)] : TotalChars(fs) <= MaxWideChars}
           : n \in 0..MaxFiles}

WideHeaders == {<<>>, <<"é">>}

WideFooters == {<<>>, <<"é">>}

InitWide ==
    /\ header \in WideHeaders
    /\ files \in WideFileLists
    /\ footer \in WideFooters
    /\ part_template \in PartTemplates
    /\ max_part_chars \in 0..MaxWideBudget
    /\ PlannerStart

SpecWide == InitWide /\ [][Next]_vars

\* the same text with every two-byte character replaced by a one-byte one:
\* the same character counts line by line, fewer bytes
Narrow(s) == [k \in 1..Len(s) |-> IF s[k] = "é" THEN "a" ELSE s[k]]

NarrowFiles == [k \in 1..Len(files) |-> Narrow(files[k])]

\* the chunk boundaries of a plan: the character count of every chunk of
\* every part
Boundaries(ps) == [p \in 1..Len(ps) |-> [c \in 1..Len(ps[p]) |-> CharCount(ps[p][c])]]

\* C16: character-count measurement - an input and its one-byte twin (same
\* character counts line by line, different byte lengths) yield the same
\* number of parts and the same chunk boundaries
C16_CharCountMeasure ==
    pc = "done" =>
        /\ Len(result) = Len(split_into_parts(Narrow(header), NarrowFiles, Narrow(footer),
                                              part_template, max_part_chars))
        /\ ~Unsplit =>
              Boundaries(parts) =
                 Boundaries(create_split_plan(Narrow(header), NarrowFiles, Narrow(footer),
                                              part_template, max_part_chars))

(* ------------------------- file reader --------------------------------- *)
\* file/file_reader.rs and file/size.rs. A path names nothing, a directory,
\* or a regular file with its bytes and whether it can be opened; BadByte
\* is a byte that is not valid UTF-8.
MaxPaths == 2
MaxFileSize == 2
MaxTotalSize == 3

BadByte == "xFF"

FileBytes == UNION {[1..n -> {"a", BadByte}] : n \in 0..MaxFileSize}

Paths ==
    {[kind |-> "missing"], [kind |-> "dir"]}
    \cup {[kind |-> "file", bytes |-> b, openable |-> o] : b \in FileBytes, o \in BOOLEAN}

PathLists == UNION {[1..n -> Paths] : n \in 0..MaxPaths}

\* split_into_parts is not running
PlannerIdle ==
    /\ header = <<>>
    /\ files = <<>>
    /\ footer = <<>>
    /\ part_template = EmptyTemplate
    /\ max_part_chars = 0
    /\ pc = "idle"
    /\ i = 0
    /\ parts = <<>>
    /\ current_part = <<>>
    /\ current_part_size = 0
    /\ result = <<>>
    /\ origin = <<>>

planner_vars == <<header, files, footer, part_template, max_part_chars,
                  pc, i, parts, current_part, current_part_size, result, origin>>

\* the error messages
NoFilesToProcess == "No files to process"
FailedMetadata == "Failed to read metadata for file"
NotRegularFile == "Path is not a regular file"
TotalSizeExceeds == "Total size of files exceeds the maximum allowed size"
FailedToOpen == "Failed to open file"
FailedToRead == "Failed to read file"
FailedToReadAsBinary == "Failed to read as binary"
OpenError == "error of File::open"

\* variant: a total equal to the limit is refused too
exceeds_total_size_inclusive(total_size, max_total_size) == total_size >= max_total_size

\* the test of check_total_size
exceeds_total_size(total_size, max_total_size) == total_size > max_total_size

IsValidUtf8(bytes) == \A k \in 1..Len(bytes) : bytes[k] /= BadByte

\* what the file system does while one file is read: read_to_string fails
\* with an I/O error or not, and the second open or read_to_end of
\* force_read_text_file fails or not
IoFaults == [read : BOOLEAN, again : {"none", "open", "read"}]

NoFault == [read |-> FALSE, again |-> "none"]

\* force_read_text_file: the file is opened and read again and the invalid
\* sequences are removed
force_read_text_file(path, fault) ==
    IF fault.again = "open" THEN [err |-> OpenError]
    ELSE IF fault.again = "read" THEN [err |-> FailedToReadAsBinary]
    ELSE [ok |-> SelectSeq(path.bytes, LAMBDA b : b /= BadByte)]

\* read_text_file: the content, or the error
read_text_file(path, force, fault) ==
    IF ~path.openable THEN [err |-> FailedToOpen]
    ELSE IF IsValidUtf8(path.bytes) /\ ~fault.read THEN [ok |-> path.bytes]
    ELSE IF force THEN force_read_text_file(path, fault)
    ELSE [err |-> FailedToRead]

IsErr(r) == "err" \in DOMAIN r

\* the printable ASCII characters, from the space (byte 32) on; x22 is the
\* double quote, x5C the backslash and x60 the backquote
Ascii ==
    <<" ", "!", "x22", "#", "$", "%", "&", "'", "(", ")", "*", "+", ",", "-", ".", "/",
      "0", "1", "2", "3", "4", "5", "6", "7", "8", "9", ":", ";", "<", "=", ">", "?",
      "@", "A", "B", "C", "D", "E", "F", "G", "H", "I", "J", "K", "L", "M", "N", "O",
      "P", "Q", "R", "S", "T", "U", "V", "W", "X", "Y", "Z", "[", "x5C", "]", "^", "_",
      "x60", "a", "b", "c", "d", "e", "f", "g", "h", "i", "j", "k", "l", "m", "n", "o",
      "p", "q", "r", "s", "t", "u", "v", "w", "x", "y", "z", "{", "|", "}", "~">>

AsciiByte(c) == 31 + (CHOOSE k \in 1..Len(Ascii) : Ascii[k] = c)

\* the order of two ASCII strings: byte by byte, a prefix first
RECURSIVE StrLess(_, _)
StrLess(a, b) ==
    IF b = <<>> THEN FALSE
    ELSE IF a = <<>> THEN TRUE
    ELSE IF Head(a) /= Head(b) THEN AsciiByte(Head(a)) < AsciiByte(Head(b))
    ELSE StrLess(Tail(a), Tail(b))

\* to_lowercase of an ASCII string
to_lowercase(name) ==
    [k \in 1..Len(name) |->
        IF AsciiByte(name[k]) \in 65..90 THEN Ascii[AsciiByte(name[k]) + 1] ELSE name[k]]

\* A path is the sequence of its components, each a string; the first one
\* may be the root directory "/" or the current directory ".".
RootDir == <<"/">>
CurDir == <<".">>
ParentDir == <<".", ".">>

\* path.display()
display(path) ==
    IF path /= <<>> /\ Head(path) = RootDir
    THEN RootDir \o Join(Tail(path), <<"/">>)
    ELSE Join(path, <<"/">>)

\* the order of two components: by kind, and two names byte by byte
ComponentLess(c, d) ==
    LET rank(x) == IF x = RootDir THEN 1 ELSE IF x = CurDir THEN 2
                   ELSE IF x = ParentDir THEN 3 ELSE 4
    IN  IF rank(c) /= rank(d) THEN rank(c) < rank(d)
        ELSE rank(c) = 4 /\ StrLess(c, d)

\* the order of two paths: component by component, a prefix first
RECURSIVE PathLess(_, _)
PathLess(a, b) ==
    IF b = <<>> THEN FALSE
    ELSE IF a = <<>> THEN TRUE
    ELSE IF Head(a) /= Head(b) THEN ComponentLess(Head(a), Head(b))
    ELSE PathLess(Tail(a), Tail(b))

\* the paths of the file lists: under the current directory, two of them
\* in one subdirectory with names that differ in case
PathNames ==
    {<<CurDir, <<"d">>, <<"a">>>>, <<CurDir, <<"d">>, <<"B">>>>, <<CurDir, <<"a">>>>}

\* the lists of n distinct paths, in any order
PathNameLists(n) ==
    {ns \in [1..n -> PathNames] : \A a, b \in 1..n : a /= b => ns[a] /= ns[b]}

\* cli.root: the current directory or the subdirectory
Roots == {<<CurDir>>, <<CurDir, <<"d">>>>}

FilePathTag == "<file-path>"
FileContentTag == "<file-content>"
AllFilePathsTag == "{{ALL_FILE_PATHS}}"
TreeTag == "{{TREE}}"
TotalFileSizeTag == "{{TOTAL_FILE_SIZE}}"

\* the prompt templates: without header and footer, and with a header and a
\* footer that carry the tags process_header_footer replaces
ItemTemplate == <<FilePathTag, ":", FileContentTag>>

Templates ==
    {[prompt |-> [header |-> <<>>, file |-> ItemTemplate, footer |-> <<>>],
      part |-> EmptyTemplate],
     [prompt |-> [header |-> <<"H", AllFilePathsTag, TotalFileSizeTag>>,
                  file |-> ItemTemplate, footer |-> <<TreeTag, "F">>],
      part |-> [header |-> <<"S", PartNumberTag>>, footer |-> <<"E">>,
                pending |-> <<"W">>]]}

\* cli.max_part_size: its default, and a size that a part of one short
\* item fits in and the text of two items does not
DefaultMaxPartSize == 100000
SmallPartSize == 12

\* remove_comments_from_file returns the content as it is
remove_comments_from_file(file) == file.content

filter_lines_in_single_file(file, remove_comments) ==
    IF remove_comments
    THEN [path |-> file.path, content |-> remove_comments_from_file(file)]
    ELSE file

filter_lines_in_files(file_contents, remove_comments) ==
    [k \in 1..Len(file_contents) |->
        filter_lines_in_single_file(file_contents[k], remove_comments)]

\* sorted_paths.sort()
RECURSIVE SortPaths(_)
SortPaths(paths) ==
    IF paths = <<>> THEN <<>>
    ELSE LET m == CHOOSE m \in 1..Len(paths) :
                     \A j \in 1..Len(paths) : ~PathLess(paths[j], paths[m])
         IN  <<paths[m]>> \o SortPaths(SubSeq(paths, 1, m - 1) \o
                                       SubSeq(paths, m + 1, Len(paths)))

\* text.replace(tag, value)
ReplaceTag(text, tag, value) ==
    Concat([k \in 1..Len(text) |-> IF text[k] = tag THEN value ELSE <<text[k]>>])

format_file_paths(file_paths) ==
    LET sorted_paths == SortPaths(file_paths)
    IN  Join([k \in 1..Len(sorted_paths) |-> display(sorted_paths[k])], <<NL>>)

replace_all_file_paths_tag(text, file_paths) ==
    ReplaceTag(text, AllFilePathsTag, format_file_paths(file_paths))

\* path.strip_prefix(root) succeeds
StartsWith(path, root) ==
    Len(root) <= Len(path) /\ SubSeq(path, 1, Len(root)) = root

\* build_tree_structure, one path: the keys from the top of the tree down to
\* the path; a path under the root starts at the node of the whole root
TreeKeys(path, root) ==
    IF StartsWith(path, root)
    THEN <<display(root)>> \o SubSeq(path, Len(root) + 1, Len(path))
    ELSE path

\* the nodes of the tree, each the keys from the top down to it
TreeNodes(paths, root) ==
    UNION {{SubSeq(TreeKeys(paths[k], root), 1, n) : n \in 1..Len(TreeKeys(paths[k], root))}
             : k \in 1..Len(paths)}

\* the nodes that are directories: the root and what a path goes through
\* (the paths are regular files, none of them goes through another)
TreeDirectories(paths, root) ==
    {<<display(root)>> : k \in {j \in 1..Len(paths) : StartsWith(paths[j], root)}}
    \cup UNION {{SubSeq(TreeKeys(paths[k], root), 1, n)
                   : n \in 1..(Len(TreeKeys(paths[k], root)) - 1)} : k \in 1..Len(paths)}

\* node_order, and the order of the map for names equal in lower case
NodeLess(m, n, directories) ==
    LET name1 == m[Len(m)]
        name2 == n[Len(n)]
    IN  IF (m \in directories) /= (n \in directories) THEN m \in directories
        ELSE IF to_lowercase(name1) /= to_lowercase(name2)
             THEN StrLess(to_lowercase(name1), to_lowercase(name2))
             ELSE StrLess(name1, name2)

RECURSIVE SortNodes(_, _)
SortNodes(nodes, directories) ==
    IF nodes = {} THEN <<>>
    ELSE LET m == CHOOSE m \in nodes : \A n \in nodes \ {m} : NodeLess(m, n, directories)
         IN  <<m>> \o SortNodes(nodes \ {m}, directories)

\* build_tree: the entries under one node, each on a line of its own with
\* its subtree after it
RECURSIVE build_tree(_, _, _, _, _)
build_tree(nodes, directories, parent, prefix, is_top_level) ==
    LET sorted_entries ==
            SortNodes({n \in nodes : /\ Len(n) = Len(parent) + 1
                                     /\ SubSeq(n, 1, Len(parent)) = parent}, directories)
        entry(k) ==
            LET node == sorted_entries[k]
                is_last == k = Len(sorted_entries)
                connector == IF is_top_level THEN <<>>
                             ELSE IF is_last THEN <<Box.corner, Box.horizontal, Box.horizontal, " ">>
                             ELSE <<Box.tee, Box.horizontal, Box.horizontal, " ">>
                new_prefix == IF is_top_level THEN <<>>
                              ELSE IF is_last THEN prefix \o <<" ", " ", " ", " ">>
                              ELSE prefix \o <<Box.vertical, " ", " ", " ">>
            IN  prefix \o connector \o node[Len(node)] \o <<NL>> \o
                (IF node \in directories
                 THEN build_tree(nodes, directories, node, new_prefix, FALSE)
                 ELSE <<>>)
    IN  Concat([k \in 1..Len(sorted_entries) |-> entry(k)])

file_paths_to_tree(paths, root) ==
    build_tree(TreeNodes(paths, root), TreeDirectories(paths, root), <<>>, <<>>, TRUE)

replace_tree_tag(text, file_paths, root) ==
    ReplaceTag(text, TreeTag, file_paths_to_tree(file_paths, root))

\* calculate_total_size over the files on disk: an error when a path is
\* missing or not a regular file
calculate_total_size(file_paths, disk) ==
    IF \E k \in 1..Len(file_paths) : disk[file_paths[k]].kind /= "file"
    THEN [err |-> "Err"]
    ELSE [ok |-> SumSeq([k \in 1..Len(file_paths) |-> Len(disk[file_paths[k]].bytes)])]

RECURSIVE Pow1024(_)
Pow1024(k) == IF k = 0 THEN 1 ELSE 1024 * Pow1024(k - 1)

\* the number of divisions by 1024 the loop over the units makes, from k on
RECURSIVE UnitIndex(_, _)
UnitIndex(bytes, k) ==
    IF k = 4 \/ bytes \div Pow1024(k) < 1024 THEN k ELSE UnitIndex(bytes, k + 1)

\* the next decimal of x / d for x < d: quotient and remainder of 10 * x
\* by d, by doubling
NextDecimal(x, d) ==
    LET q2 == IF 2 * x >= d THEN 1 ELSE 0
        r2 == 2 * x - q2 * d
        c4 == IF 2 * r2 >= d THEN 1 ELSE 0
        r4 == 2 * r2 - c4 * d
        c8 == IF 2 * r4 >= d THEN 1 ELSE 0
        r8 == 2 * r4 - c8 * d
        c == IF r8 + r2 >= d THEN 1 ELSE 0
    IN  [q |-> 4 * q2 + 2 * c4 + c8 + q2 + c, r |-> r8 + r2 - c * d]

\* human_readable_size: the size in the largest unit that keeps it at 1 or
\* more, without decimals when it is whole and with two otherwise, the
\* second one rounded half to even
human_readable_size(bytes) ==
    LET units == <<<<"B">>, <<"K", "B">>, <<"M", "B">>, <<"G", "B">>, <<"T", "B">>>>
        u == UnitIndex(bytes, 0)
        d == Pow1024(u)
        first == NextDecimal(bytes % d, d)
        second == NextDecimal(first.r, d)
        floor == (bytes \div d) * 100 + first.q * 10 + second.q
        h == IF 2 * second.r > d \/ (2 * second.r = d /\ floor % 2 = 1)
             THEN floor + 1 ELSE floor
    IN  IF bytes % d = 0
        THEN to_string(bytes \div d) \o <<" ">> \o units[u + 1]
        ELSE to_string(h \div 100) \o <<".", Digit((h \div 10) % 10), Digit(h % 10), " ">>
               \o units[u + 1]

replace_total_file_size_tag(text, file_paths, disk) ==
    LET total_size == calculate_total_size(file_paths, disk)
    IN  IF "ok" \in DOMAIN total_size
        THEN ReplaceTag(text, TotalFileSizeTag, human_readable_size(total_size.ok))
        ELSE text

\* process_header_footer: the three tags are replaced one after the other
process_header_footer(text, file_paths, root, disk) ==
    replace_total_file_size_tag(
        replace_tree_tag(replace_all_file_paths_tag(text, file_paths), file_paths, root),
        file_paths, disk)

\* concatenate_items: the item template applied to every file, each item
\* followed by a newline
\* the item template applied to one file
render_item(item_template, file) ==
    ReplaceTag(ReplaceTag(item_template, FilePathTag, display(file.path)),
               FileContentTag, file.content)

concatenate_items(item_template, fs) ==
    Concat([k \in 1..Len(fs) |-> render_item(item_template, fs[k]) \o <<NL>>])

\* concatenate_files: the processed header and a newline when there is a
\* header, the items, and the processed footer when there is one
concatenate_files(template, fs, root, disk) ==
    LET items == concatenate_items(template.prompt.file, fs)
        file_paths == [k \in 1..Len(fs) |-> fs[k].path]
        hdr == IF template.prompt.header /= <<>>
               THEN process_header_footer(template.prompt.header, file_paths, root, disk)
                      \o <<NL>>
               ELSE <<>>
        ftr == IF template.prompt.footer /= <<>>
               THEN process_header_footer(template.prompt.footer, file_paths, root, disk)
               ELSE <<>>
    IN  hdr \o items \o ftr

\* The concatenate_files that read_and_concatenate_files calls returns the
\* parts of the prompt: the processed header, the items and the processed
\* footer go through split_into_parts with the part template and
\* cli.max_part_size.
concatenate_files_into_parts(template, fs, root, disk, max_part_size) ==
    LET file_paths == [k \in 1..Len(fs) |-> fs[k].path]
    IN  split_into_parts(
            process_header_footer(template.prompt.header, file_paths, root, disk),
            [k \in 1..Len(fs) |-> render_item(template.prompt.file, fs[k])],
            process_header_footer(template.prompt.footer, file_paths, root, disk),
            template.part, max_part_size)

\* the files on disk under the paths of the list
Disk(paths, ps) ==
    [n \in {paths[k] : k \in 1..Len(paths)} |->
        ps[CHOOSE k \in 1..Len(paths) : paths[k] = n]]

InitRead ==
    /\ PlannerIdle
    /\ \E ps \in PathLists, m \in 0..MaxTotalSize, b \in BOOLEAN,
          t \in Templates, root \in Roots, r \in BOOLEAN,
          p \in {SmallPartSize, DefaultMaxPartSize} :
       \E ns \in PathNameLists(Len(ps)) :
          call = [op |-> "read_and_concatenate_files",
                  files |-> ps, paths |-> ns, max_total_size |-> m, binary |-> b,
                  template |-> t, root |-> root, remove_comments |-> r,
                  max_part_size |-> p,
                  at |-> "start", index |-> 0, total_size |-> 0,
                  opened |-> 0, file_contents |-> <<>>,
                  ret |-> "none", output |-> <<>>]

ReadReturn(error) ==
    call' = [call EXCEPT !.at = "returned", !.ret = error]

\* read_and_concatenate_files: the file list is empty
RejectNoFiles ==
    /\ call.at = "start"
    /\ call.files = <<>>
    /\ ReadReturn(NoFilesToProcess)
    /\ UNCHANGED planner_vars

\* read_and_concatenate_files: enter check_total_size
BeginCheckTotalSize ==
    /\ call.at = "start"
    /\ call.files /= <<>>
    /\ call' = [call EXCEPT !.at = "size", !.index = 0]
    /\ UNCHANGED planner_vars

\* calculate_total_size, one path: fs::metadata fails
MetadataFails ==
    /\ call.at = "size"
    /\ call.index < Len(call.files)
    /\ call.files[call.index + 1].kind = "missing"
    /\ ReadReturn(FailedMetadata)
    /\ UNCHANGED planner_vars

\* calculate_total_size, one path: not a regular file
NotARegularFile ==
    /\ call.at = "size"
    /\ call.index < Len(call.files)
    /\ call.files[call.index + 1].kind = "dir"
    /\ ReadReturn(NotRegularFile)
    /\ UNCHANGED planner_vars

\* calculate_total_size, one path: its length is added
AddFileSize ==
    /\ call.at = "size"
    /\ call.index < Len(call.files)
    /\ call.files[call.index + 1].kind = "file"
    /\ call' = [call EXCEPT !.total_size = @ + Len(call.files[call.index + 1].bytes),
                            !.index = @ + 1]
    /\ UNCHANGED planner_vars

\* check_total_size: the total is over the limit
TotalSizeRefused ==
    /\ call.at = "size"
    /\ call.index = Len(call.files)
    /\ exceeds_total_size(call.total_size, call.max_total_size)
    /\ ReadReturn(TotalSizeExceeds)
    /\ UNCHANGED planner_vars

\* check_total_size: the total is accepted, enter read_files
TotalSizeAccepted ==
    /\ call.at = "size"
    /\ call.index = Len(call.files)
    /\ ~exceeds_total_size(call.total_size, call.max_total_size)
    /\ call' = [call EXCEPT !.at = "read", !.index = 0]
    /\ UNCHANGED planner_vars

\* read_files, one path: read_text_file succeeds
ReadOneFile ==
    /\ call.at = "read"
    /\ call.index < Len(call.files)
    /\ \E fault \in IoFaults :
        LET r == read_text_file(call.files[call.index + 1], call.binary, fault) IN
        /\ ~IsErr(r)
        /\ call' = [call EXCEPT
                       !.file_contents = Append(@, [path |-> call.paths[call.index + 1],
                                                    content |-> r.ok]),
                       !.opened = @ + 1, !.index = @ + 1]
    /\ UNCHANGED planner_vars

\* read_files, one path: read_text_file fails, the contents read so far
\* are dropped with the call
ReadFileFails ==
    /\ call.at = "read"
    /\ call.index < Len(call.files)
    /\ \E fault \in IoFaults :
        LET r == read_text_file(call.files[call.index + 1], call.binary, fault) IN
        /\ IsErr(r)
        /\ call' = [call EXCEPT !.at = "returned", !.ret = r.err,
                                !.opened = @ + 1, !.file_contents = <<>>]
    /\ UNCHANGED planner_vars

\* read_and_concatenate_files: every file is read, the contents are
\* filtered and concatenated and the call returns the parts
ConcatenateFiles ==
    /\ call.at = "read"
    /\ call.index = Len(call.files)
    /\ LET filtered == filter_lines_in_files(call.file_contents, call.remove_comments)
           concatenated == concatenate_files_into_parts(call.template, filtered, call.root,
                               Disk(call.paths, call.files), call.max_part_size)
       IN  call' = [call EXCEPT !.at = "returned", !.ret = "Ok",
                                !.output = concatenated]
    /\ UNCHANGED planner_vars

NextRead ==
    \/ RejectNoFiles
    \/ BeginCheckTotalSize
    \/ MetadataFails
    \/ NotARegularFile
    \/ AddFileSize
    \/ TotalSizeRefused
    \/ TotalSizeAccepted
    \/ ReadOneFile
    \/ ReadFileFails
    \/ ConcatenateFiles

SpecRead == InitRead /\ [][NextRead]_vars

(* ------------------------- C17 ----------------------------------------- *)
AllRegular(ps) == \A k \in 1..Len(ps) : ps[k].kind = "file"

TotalSize(ps) == SumSeq([k \in 1..Len(ps) |-> Len(ps[k].bytes)])

\* every file can be read when no I/O error happens
AllReadable(ps, force) ==
    \A k \in 1..Len(ps) : ~IsErr(read_text_file(ps[k], force, NoFault))

\* the errors of reading one file
ReadErrors == {FailedToOpen, FailedToRead, FailedToReadAsBinary, OpenError}

\* the text of the files read, as template/concatenate.rs concatenates it
Concatenation ==
    concatenate_files(call.template, call.file_contents, call.root,
                      Disk(call.paths, call.files))

\* the text is within cli.max_part_size
ConcatenationFits == CharCount(Concatenation) <= call.max_part_size

\* C17: upstream errors short-circuit - an empty file list and a total size
\* strictly over max_total_size are errors returned before any file is
\* opened; a total equal to the limit is accepted and the files are read;
\* a failure to read one file is the error of the call; an error never
\* comes with output, and a call that is Ok has read every file and
\* returns parts, the text of the files as one part when it fits
C17_ErrorsShortCircuit ==
    call.at = "returned" =>
        LET ps == call.files IN
        /\ ps = <<>> => call.ret = NoFilesToProcess /\ call.opened = 0
        /\ (ps /= <<>> /\ AllRegular(ps) /\ TotalSize(ps) > call.max_total_size)
              => call.ret = TotalSizeExceeds /\ call.opened = 0
        /\ (ps /= <<>> /\ AllRegular(ps) /\ TotalSize(ps) <= call.max_total_size)
              => /\ call.ret \in {"Ok"} \cup ReadErrors
                 /\ call.opened >= 1
                 /\ ~AllReadable(ps, call.binary) => call.ret \in ReadErrors
                 /\ call.ret = FailedToOpen => ~ps[call.opened].openable
                 /\ call.ret = FailedToRead => ~call.binary
                 /\ call.ret \in {FailedToReadAsBinary, OpenError} => call.binary
        /\ call.ret /= "Ok" => call.output = <<>> /\ call.file_contents = <<>>
        /\ call.ret = "Ok" =>
              /\ call.opened = Len(ps)
              /\ \A k \in 1..Len(ps) : ps[k].openable
              /\ call.output /= <<>>
              /\ ConcatenationFits => call.output = <<Concatenation>>

\* the second file could not be read after the first one was
C17_Witness ==
    /\ call.at = "returned"
    /\ call.ret = FailedToRead
    /\ call.opened = 2
    /\ call.output = <<>>

(* ------------------------- file output --------------------------------- *)
\* output/file.rs. A path is a sequence of pieces, a file is its name and
\* its data, written is the files created so far in creation order.
MaxParts == 3

TimeTag == "{TIME}"
TimeUtcTag == "{TIME_UTC}"

\* the timestamps that replace the tags
LocalStamp == "local-time"
UtcStamp == "utc-time"

OutputPaths == {<<"out">>, <<"out-", TimeTag>>, <<"out-", TimeUtcTag>>}

PartTexts == {<<"a">>, <<"b", NL>>, <<" ", "c">>}

Contents == UNION {[1..n -> PartTexts] : n \in 0..MaxParts}

replace_time_tags(path) ==
    [k \in 1..Len(path) |->
        IF path[k] = TimeTag THEN LocalStamp
        ELSE IF path[k] = TimeUtcTag THEN UtcStamp
        ELSE path[k]]

\* char::is_whitespace on the characters of the model
IsWhitespace(c) == c \in {" ", NL, CR}

RECURSIVE trim_start(_)
trim_start(s) ==
    IF s /= <<>> /\ IsWhitespace(Head(s)) THEN trim_start(Tail(s)) ELSE s

RECURSIVE trim_end(_)
trim_end(s) ==
    IF s /= <<>> /\ IsWhitespace(s[Len(s)]) THEN trim_end(SubSeq(s, 1, Len(s) - 1)) ELSE s

\* str::trim()
trim(s) == trim_end(trim_start(s))

\* format!("{:03}", n): decimal digits, zeros on the left up to three digits
pad3(n) ==
    LET digits == to_string(n)
    IN  Repeat("0", SaturatingSub(3, Len(digits))) \o digits

\* format!("{}.{}", base_path.display(), suffix)
suffixed_path(base_path, index) == base_path \o <<".">> \o pad3(index + 1)

InitFile ==
    /\ PlannerIdle
    /\ \E c \in Contents, p \in OutputPaths, b \in BOOLEAN :
          call = [op |-> "output_to_file",
                  content |-> c, path |-> p, combine_parts |-> b,
                  at |-> "start", index |-> 0, written |-> <<>>, ret |-> "none"]

\* output_to_file: no content, nothing is written
NoContent ==
    /\ call.at = "start"
    /\ call.content = <<>>
    /\ call' = [call EXCEPT !.at = "returned", !.ret = "Ok",
                            !.path = replace_time_tags(call.path)]
    /\ UNCHANGED planner_vars

\* output_to_file, combine_and_write: one file with the parts joined
CombineAndWrite ==
    /\ call.at = "start"
    /\ call.content /= <<>>
    /\ Len(call.content) = 1 \/ call.combine_parts
    /\ LET path == replace_time_tags(call.path)
           combined_content == Join(call.content, <<NL>>)
       IN  call' = [call EXCEPT !.at = "returned", !.ret = "Ok", !.path = path,
                       !.written = <<[name |-> path, data |-> trim(combined_content)]>>]
    /\ UNCHANGED planner_vars

\* the data a failing write_all can leave in the file: less than all of it
PartlyWritten(data) == {SubSeq(data, 1, n) : n \in 0..(Len(data) - 1)}

\* combine_and_write: create_parent_dir or File::create fails, no file
CombineAndWriteFails ==
    /\ call.at = "start"
    /\ call.content /= <<>>
    /\ Len(call.content) = 1 \/ call.combine_parts
    /\ call' = [call EXCEPT !.at = "returned", !.ret = "Err",
                            !.path = replace_time_tags(call.path)]
    /\ UNCHANGED planner_vars

\* combine_and_write: the file is created and write_all fails
CombineWriteAllFails ==
    /\ call.at = "start"
    /\ call.content /= <<>>
    /\ Len(call.content) = 1 \/ call.combine_parts
    /\ LET path == replace_time_tags(call.path)
           combined_content == Join(call.content, <<NL>>)
       IN  \E data \in PartlyWritten(trim(combined_content)) :
              call' = [call EXCEPT !.at = "returned", !.ret = "Err", !.path = path,
                          !.written = <<[name |-> path, data |-> data]>>]
    /\ UNCHANGED planner_vars

\* output_to_file: enter write_parts_separately
BeginWriteParts ==
    /\ call.at = "start"
    /\ Len(call.content) > 1
    /\ ~call.combine_parts
    /\ call' = [call EXCEPT !.at = "write", !.index = 0,
                            !.path = replace_time_tags(call.path)]
    /\ UNCHANGED planner_vars

\* write_parts_separately, one part
WritePart ==
    /\ call.at = "write"
    /\ call.index < Len(call.content)
    /\ call' = [call EXCEPT !.index = @ + 1,
                   !.written = Append(@, [name |-> suffixed_path(call.path, call.index),
                                          data |-> trim(call.content[call.index + 1])])]
    /\ UNCHANGED planner_vars

\* write_parts_separately: create_parent_dir or File::create fails, no file
\* for this part
WritePartFails ==
    /\ call.at = "write"
    /\ call.index < Len(call.content)
    /\ call' = [call EXCEPT !.at = "returned", !.ret = "Err"]
    /\ UNCHANGED planner_vars

\* write_parts_separately, one part: the file is created and write_all fails
PartWriteAllFails ==
    /\ call.at = "write"
    /\ call.index < Len(call.content)
    /\ \E data \in PartlyWritten(trim(call.content[call.index + 1])) :
          call' = [call EXCEPT !.at = "returned", !.ret = "Err",
                      !.written = Append(@, [name |-> suffixed_path(call.path, call.index),
                                             data |-> data])]
    /\ UNCHANGED planner_vars

\* write_parts_separately: every part is written
FinishWriteParts ==
    /\ call.at = "write"
    /\ call.index = Len(call.content)
    /\ call' = [call EXCEPT !.at = "returned", !.ret = "Ok"]
    /\ UNCHANGED planner_vars

NextFile ==
    \/ NoContent
    \/ CombineAndWrite
    \/ CombineAndWriteFails
    \/ CombineWriteAllFails
    \/ BeginWriteParts
    \/ WritePart
    \/ WritePartFails
    \/ PartWriteAllFails
    \/ FinishWriteParts

SpecFile == InitFile /\ [][NextFile]_vars

(* ------------------------- C18 ----------------------------------------- *)
\* C18: file delivery - a successful output_to_file with n >= 2 parts and
\* combine_parts false has written n files <path>.001 .. <path>.00n, file k
\* holding part k; with one part, or combine_parts true, one file at <path>
\* holding the parts joined by newlines; with no parts, no file
C18_FileDelivery ==
    (call.at = "returned" /\ call.ret = "Ok") =>
        LET n == Len(call.content) IN
        IF n = 0 THEN call.written = <<>>
        ELSE IF n = 1 \/ call.combine_parts
        THEN call.written = <<[name |-> call.path, data |-> Join(call.content, <<NL>>)]>>
        ELSE call.written =
                [k \in 1..n |-> [name |-> call.path \o <<".", "0", "0", Digit(k)>>,
                                 data |-> call.content[k]]]

(* ------------------------- clipboard output ---------------------------- *)
\* output/clipboard.rs. stdin is a terminal, where read_line returns when
\* the user presses Enter, or it is at its end (the file paths were piped
\* in and read to the end by main), where read_line returns at once with
\* nothing read. log is the history of the call: a "copy" event for every
\* set_text and an "enter" event for every line read.
StdinStates == {"terminal", "eof"}

InitClipboard ==
    /\ PlannerIdle
    /\ \E c \in Contents, t \in StdinStates :
          call = [op |-> "output_to_clipboard",
                  content |-> c, stdin |-> t,
                  at |-> "start", index |-> 0, clipboard |-> <<>>,
                  log |-> <<>>, ret |-> "none"]

\* Clipboard::new() fails
ClipboardUnavailable ==
    /\ call.at = "start"
    /\ call' = [call EXCEPT !.at = "returned", !.ret = "Err"]
    /\ UNCHANGED planner_vars

\* output_to_clipboard with one part: copy_single_part
CopySinglePart ==
    /\ call.at = "start"
    /\ Len(call.content) = 1
    /\ call' = [call EXCEPT !.at = "returned", !.ret = "Ok",
                   !.clipboard = trim(call.content[1]),
                   !.log = Append(@, [ev |-> "copy", part |-> 1])]
    /\ UNCHANGED planner_vars

\* output_to_clipboard: enter copy_multiple_parts
BeginCopyMultipleParts ==
    /\ call.at = "start"
    /\ Len(call.content) /= 1
    /\ call' = [call EXCEPT !.at = "copy", !.index = 0]
    /\ UNCHANGED planner_vars

\* copy_multiple_parts, one iteration: set_text, then wait unless the part
\* is the last one
CopyPart ==
    /\ call.at = "copy"
    /\ call.index < Len(call.content)
    /\ call' = [call EXCEPT
                   !.clipboard = trim(call.content[call.index + 1]),
                   !.log = Append(@, [ev |-> "copy", part |-> call.index + 1]),
                   !.at = IF call.index < Len(call.content) - 1 THEN "wait" ELSE "copy",
                   !.index = IF call.index < Len(call.content) - 1 THEN @ ELSE @ + 1]
    /\ UNCHANGED planner_vars

\* copy_multiple_parts, one iteration: set_text fails
SetTextFails ==
    /\ call.at = "copy"
    /\ call.index < Len(call.content)
    /\ call' = [call EXCEPT !.at = "returned", !.ret = "Err"]
    /\ UNCHANGED planner_vars

\* wait_for_enter: the user presses Enter and read_line returns the line
PressEnter ==
    /\ call.at = "wait"
    /\ call.stdin = "terminal"
    /\ call' = [call EXCEPT !.at = "copy", !.index = @ + 1,
                   !.log = Append(@, [ev |-> "enter", part |-> call.index + 1])]
    /\ UNCHANGED planner_vars

\* wait_for_enter: stdin is at its end and read_line returns Ok(0)
EndOfInput ==
    /\ call.at = "wait"
    /\ call.stdin = "eof"
    /\ call' = [call EXCEPT !.at = "copy", !.index = @ + 1]
    /\ UNCHANGED planner_vars

\* wait_for_enter: flush or read_line fails
WaitForEnterFails ==
    /\ call.at = "wait"
    /\ call' = [call EXCEPT !.at = "returned", !.ret = "Err"]
    /\ UNCHANGED planner_vars

\* copy_multiple_parts: the loop is over
FinishCopyMultipleParts ==
    /\ call.at = "copy"
    /\ call.index = Len(call.content)
    /\ call' = [call EXCEPT !.at = "returned", !.ret = "Ok"]
    /\ UNCHANGED planner_vars

NextClipboard ==
    \/ ClipboardUnavailable
    \/ CopySinglePart
    \/ BeginCopyMultipleParts
    \/ CopyPart
    \/ SetTextFails
    \/ PressEnter
    \/ EndOfInput
    \/ WaitForEnterFails
    \/ FinishCopyMultipleParts

SpecClipboard == InitClipboard /\ [][NextClipboard]_vars

(* ------------------------- C19 ----------------------------------------- *)
\* the parts copied so far, in the order of copying
CopiedParts ==
    LET copies == SelectSeq(call.log, LAMBDA e : e.ev = "copy")
    IN  [k \in 1..Len(copies) |-> copies[k].part]

\* the number of confirmations before position p of the log
EntersBefore(p) ==
    Len(SelectSeq(SubSeq(call.log, 1, p - 1), LAMBDA e : e.ev = "enter"))

\* C19: clipboard delivery order - the parts are copied in sequence order,
\* each once; part k+1 is never copied before the confirmation for part k;
\* a call that ends well has copied every part, with one confirmation after
\* every part but the last and none after the last
C19_ClipboardOrder ==
    /\ CopiedParts = [k \in 1..Len(CopiedParts) |-> k]
    /\ \A p \in 1..Len(call.log) :
          call.log[p].ev = "copy" => EntersBefore(p) = call.log[p].part - 1
    /\ (call.at = "returned" /\ call.ret = "Ok") =>
          /\ Len(CopiedParts) = Len(call.content)
          /\ call.log /= <<>> => call.log[Len(call.log)].ev = "copy"

(* ------------------------- line splitter, step by step ----------------- *)
\* a call of split_file_by_lines on its own: one step per line of
\* file_content.lines(). history has one record per line taken: the line,
\* the chunk's size and emptiness before it, and whether the step closed a
\* chunk.
MaxSplitChars == 5
MaxChunkSize == 5

SplitContents == WideStrings(MaxSplitChars)

InitSplitLines ==
    /\ PlannerIdle
    /\ \E c \in SplitContents, m \in 0..MaxChunkSize :
          call = [op |-> "split_file_by_lines",
                  file_content |-> c, max_chunk_size |-> m,
                  at |-> "loop", index |-> 0,
                  st |-> [chunks |-> <<>>, current_chunk |-> <<>>, current_chunk_chars |-> 0],
                  history |-> <<>>, ret |-> <<>>]

\* one iteration of the loop
TakeLine ==
    /\ call.at = "loop"
    /\ call.index < Len(Lines(call.file_content))
    /\ LET line == Lines(call.file_content)[call.index + 1]
           after == SplitLineStep(call.st, line, call.max_chunk_size)
       IN  call' = [call EXCEPT
                       !.st = after,
                       !.index = @ + 1,
                       !.history = Append(@,
                           [line |-> line,
                            chars_before |-> call.st.current_chunk_chars,
                            empty_before |-> call.st.current_chunk = <<>>,
                            closed |-> Len(after.chunks) > Len(call.st.chunks)])]
    /\ UNCHANGED planner_vars

\* after the loop: the last chunk is pushed and the chunks are returned
ReturnChunks ==
    /\ call.at = "loop"
    /\ call.index = Len(Lines(call.file_content))
    /\ call' = [call EXCEPT !.at = "returned",
                   !.ret = IF call.st.current_chunk /= <<>>
                           THEN Append(call.st.chunks,
                                       SubSeq(call.st.current_chunk, 1,
                                              Len(call.st.current_chunk) - 1))
                           ELSE call.st.chunks]
    /\ UNCHANGED planner_vars

NextSplitLines ==
    \/ TakeLine
    \/ ReturnChunks

SpecSplitLines == InitSplitLines /\ [][NextSplitLines]_vars

(* ------------------------- C20 ----------------------------------------- *)
\* the lines of every chunk: a chunk begins at the first line and at every
\* line whose step closed the chunk before it
RECURSIVE GroupsOf(_, _)
GroupsOf(hist, acc) ==
    IF hist = <<>> THEN acc
    ELSE LET h == Head(hist) IN
         GroupsOf(Tail(hist),
                  IF acc = <<>> \/ h.closed
                  THEN Append(acc, <<h.line>>)
                  ELSE [acc EXCEPT ![Len(acc)] = Append(@, h.line)])

Groups == GroupsOf(call.history, <<>>)

\* the size of a chunk as the splitter counts it: every line and its newline
GroupChars(g) == SumSeq([k \in 1..Len(g) |-> CharCount(g[k]) + 1])

\* C20: the line splitter is the greedy partition - a line closes the
\* current chunk exactly when the chunk is non-empty and current_chunk_chars
\* + chars(line) + 1 > max; every chunk of two or more lines measures at
\* most max; a chunk over max is a single line; with max 0 or below every
\* line and its newline each line is its own chunk; the chunks returned are
\* the lines of each chunk joined by newlines, in order
C20_GreedyPartition ==
    LET max == call.max_chunk_size IN
    /\ \A k \in 1..Len(call.history) :
          LET h == call.history[k] IN
          h.closed <=> (~h.empty_before /\ h.chars_before + CharCount(h.line) + 1 > max)
    /\ \A g \in 1..Len(Groups) :
          /\ Len(Groups[g]) >= 2 => GroupChars(Groups[g]) <= max
          /\ GroupChars(Groups[g]) > max => Len(Groups[g]) = 1
    /\ (\A k \in 1..Len(call.history) : CharCount(call.history[k].line) + 1 > max)
          => \A g \in 1..Len(Groups) : Len(Groups[g]) = 1
    /\ call.at = "returned" =>
          /\ Concat(Groups) = Lines(call.file_content)
          /\ call.ret = [g \in 1..Len(Groups) |-> Join(Groups[g], <<NL>>)]
          /\ call.ret = split_file_by_lines(call.file_content, call.max_chunk_size)

\* a chunk of two lines that fills the limit exactly, next to a chunk of one
\* line that is over the limit
C20_Witness ==
    /\ call.at = "returned"
    /\ \E g \in 1..Len(Groups) :
          Len(Groups[g]) = 2 /\ GroupChars(Groups[g]) = call.max_chunk_size
    /\ \E g \in 1..Len(Groups) : GroupChars(Groups[g]) > call.max_chunk_size

(* ------------------------- C21 ----------------------------------------- *)
\* the lines a chunk holds: the chunk is its lines joined by newlines, so
\* its lines are the pieces between the newlines ("" is one empty line)
RECURSIVE LinesOfChunkFrom(_, _, _, _)
LinesOfChunkFrom(chunk, k, cur, acc) ==
    IF k > Len(chunk) THEN Append(acc, cur)
    ELSE IF chunk[k] = NL THEN LinesOfChunkFrom(chunk, k + 1, <<>>, Append(acc, cur))
    ELSE LinesOfChunkFrom(chunk, k + 1, Append(cur, chunk[k]), acc)

LinesOfChunk(chunk) == LinesOfChunkFrom(chunk, 1, <<>>, <<>>)

\* C21: line splitter round trip - the lines of the returned chunks, in
\* chunk order, are the lines of the input in order; every returned chunk
\* was given at least one line; empty input yields no chunks
C21_RoundTrip ==
    call.at = "returned" =>
        /\ Concat([c \in 1..Len(call.ret) |-> LinesOfChunk(call.ret[c])])
              = Lines(call.file_content)
        /\ Len(Groups) = Len(call.ret)
        /\ \A g \in 1..Len(Groups) : Groups[g] /= <<>>
        /\ call.file_content = <<>> => call.ret = <<>>

\* consecutive empty lines between two lines, split over several chunks
C21_Witness ==
    /\ call.at = "returned"
    /\ Len(call.ret) >= 2
    /\ \E k \in 1..Len(call.history) - 1 :
          call.history[k].line = <<>> /\ call.history[k + 1].line = <<>>
    /\ \E k \in 1..Len(call.history) : call.history[k].line /= <<>>

(* ------------------------- C22 ----------------------------------------- *)
\* the planner takes the step for a block that does not fit in the current part
ExceedingStep ==
    /\ pc = "plan"
    /\ i < Len(files)
    /\ FileExceeds(files[i + 1])
    /\ i' = i + 1

\* the block's own contribution: its characters and newline, the header
\* line if it is the first block, the footer line if it is the last
Contribution(k) == calculate_file_length(header, footer, files, k, files[k + 1])

\* the plan once the whole block is placed in a new part
WholeInNewPart(file) ==
    [parts |-> IF current_part /= <<>> THEN Append(parts, current_part) ELSE parts,
     current_part |-> <<file \o <<NL>>>>]

\* the plan once the block is line-split with the limit the planner uses
LineSplit(file) ==
    LET st == handle_large_file(Planner, file, part_overhead, ByteLen(footer),
                                ByteLen(header), max_part_chars)
    IN  [parts |-> st.parts, current_part |-> st.current_part]

\* C22: split decision - a block that does not fit in the current part is
\* line-split if and only if its own contribution plus part_overhead
\* exceeds the budget; otherwise the current part is closed (if non-empty)
\* and the whole block is placed in a new part
C22_SplitDecision ==
    [][ExceedingStep =>
          [parts |-> parts', current_part |-> current_part'] =
             (IF Contribution(i) + part_overhead > max_part_chars
              THEN LineSplit(files[i + 1])
              ELSE WholeInNewPart(files[i + 1]))]_vars

(* ------------------------- C23 ----------------------------------------- *)
\* the chunk limit as the claim states it: the header and footer lengths
\* are subtracted only for the block (0-based index k) that carries them
ApplicableChunkLimit(k) ==
    SaturatingSub(max_part_chars,
        part_overhead
        + (IF k = 0 /\ header /= <<>> THEN CharCount(header) ELSE 0)
        + (IF k = Len(files) - 1 /\ footer /= <<>> THEN CharCount(footer) ELSE 0))

\* the plan once the block is line-split with that limit
LineSplitWith(file, limit) ==
    LET st == AddChunksLoop(Planner, split_file_by_lines(file, limit))
    IN  [parts |-> st.parts, current_part |-> st.current_part]

\* C23: chunk limit for an oversized block - the block is line-split with
\* max_chunk_chars = budget - (part_overhead + header length if the block is
\* the first + footer length if the block is the last); a middle block is
\* split with budget - part_overhead
C23_ChunkLimit ==
    [][(ExceedingStep /\ IsLargeFile(files[i + 1], part_overhead, max_part_chars)) =>
          [parts |-> parts', current_part |-> current_part'] =
             LineSplitWith(files[i + 1], ApplicableChunkLimit(i))]_vars

(* ------------------------- C24 ----------------------------------------- *)
\* the parts of the plan so far: the closed parts and, while the planner
\* runs, the open part if it holds a chunk
PlanParts ==
    IF pc = "plan" /\ current_part /= <<>> THEN Append(parts, current_part) ELSE parts

\* for every chunk of the plan, in the order of adding: its part and its
\* position in the part
ChunkSlots ==
    Concat([p \in 1..Len(PlanParts) |->
              [c \in 1..Len(PlanParts[p]) |-> [part |-> p, pos |-> c]]])

Planning == pc \in {"plan", "assemble", "done"} /\ ~Unsplit

\* C24: a line-chunk starts its own part - every chunk produced by
\* line-splitting a block is the first chunk of its part, and no block
\* before the split block is in the part of any of its chunks
C24_ChunkStartsPart ==
    Planning =>
        /\ Len(ChunkSlots) = Len(origin)
        /\ \A j \in 1..Len(origin) :
              origin[j].split =>
                 /\ ChunkSlots[j].pos = 1
                 /\ \A n \in 1..Len(origin) :
                       origin[n].file < origin[j].file
                          => ChunkSlots[n].part /= ChunkSlots[j].part

\* a block placed whole is followed by a block split into two chunks or more
C24_Witness ==
    /\ pc = "done"
    /\ ~Unsplit
    /\ Len(origin) >= 3
    /\ ~origin[1].split
    /\ origin[2].split
    /\ origin[3].split
    /\ parts[1] /= <<<<NL>>>>

(* ------------------------- C25 ----------------------------------------- *)
\* C25: a line-chunk is never mixed with other blocks - a part that holds a
\* chunk produced by line-splitting a block holds no content of any other
\* block, before or after
C25_ChunkNeverMixed ==
    Planning =>
        \A j \in 1..Len(origin) : \A n \in 1..Len(origin) :
            (origin[j].split /\ origin[n].file /= origin[j].file
                /\ Len(ChunkSlots) = Len(origin))
               => ChunkSlots[n].part /= ChunkSlots[j].part

(* ------------------------- C26 ----------------------------------------- *)
\* the character count of a fragment with every placeholder replaced by the
\* 3-character sentinel
SentinelChars(fragment) ==
    SumSeq([k \in 1..Len(fragment) |-> IF fragment[k] \in Placeholders THEN 3 ELSE 1])

\* C26 as stated: every fragment counts its characters plus one newline only
\* when it is non-empty; an empty part header or part footer counts 0
C26_OverheadAsStated ==
    pc /= "call" =>
        part_overhead =
            (IF part_template.header /= <<>> THEN SentinelChars(part_template.header) + 1 ELSE 0)
          + (IF part_template.footer /= <<>> THEN SentinelChars(part_template.footer) + 1 ELSE 0)
          + (IF part_template.pending /= <<>> THEN SentinelChars(part_template.pending) + 1 ELSE 0)

\* C26: overhead formula - the part header and the part footer each count
\* their characters (placeholders as the 3-character sentinel) plus one
\* newline, also when empty (an empty one counts 1); the pending text counts
\* its characters plus one newline only when it is non-empty
C26_OverheadFormula ==
    pc /= "call" =>
        part_overhead =
            (SentinelChars(part_template.header) + 1)
          + (SentinelChars(part_template.footer) + 1)
          + (IF part_template.pending /= <<>> THEN SentinelChars(part_template.pending) + 1 ELSE 0)

\* the planner runs with an empty part header, a part footer with a
\* placeholder and no pending text
C26_Witness ==
    /\ pc = "plan"
    /\ part_template.header = <<>>
    /\ part_template.footer /= <<>>
    /\ part_template.pending = <<>>
    /\ part_overhead = 6

(* ------------------------- assembler, part by part --------------------- *)
\* a call of assemble_multiple_parts on a plan of total_parts parts of one
\* chunk each, one step per part; part_content is the part assembled last
MaxPlanParts == 120

\* the largest number the sentinel stands for
SentinelMax == 999

OneChunk == <<<<"a", NL>>>>

\* the numbers of parts: every small one and the largest the sentinel covers
PlanSizes == {n \in 1..SentinelMax : n <= MaxPlanParts} \cup {SentinelMax}

InitAssemble ==
    /\ PlannerIdle
    /\ \E tpl \in PartTemplates, n \in PlanSizes :
          call = [op |-> "assemble_multiple_parts",
                  part_template |-> tpl, total_parts |-> n,
                  at |-> "loop", index |-> 0, part_content |-> <<>>]

\* one iteration of the loop over the parts
AssembleOnePart ==
    /\ call.at = "loop"
    /\ call.index < call.total_parts
    /\ call' = [call EXCEPT
                   !.part_content = AssemblePart(OneChunk, call.part_template, <<>>, <<>>,
                                                 call.index, call.total_parts),
                   !.index = @ + 1]
    /\ UNCHANGED planner_vars

\* the loop is over and the assembled parts are returned
ReturnAssembled ==
    /\ call.at = "loop"
    /\ call.index = call.total_parts
    /\ call' = [call EXCEPT !.at = "returned"]
    /\ UNCHANGED planner_vars

NextAssemble ==
    \/ AssembleOnePart
    \/ ReturnAssembled

SpecAssemble == InitAssemble /\ [][NextAssemble]_vars

(* ------------------------- C27 ----------------------------------------- *)
\* the number of characters of wrapper text in the part assembled last
WrapperChars == CharCount(call.part_content) - CharCount(Concat(OneChunk))

\* C27: the overhead is an upper bound - in a result of at most 999 parts
\* the estimate of calculate_part_overhead is at least the number of
\* characters of wrapper text (part header, part footer, pending text and
\* their newlines) of every assembled part
C27_OverheadUpperBound ==
    (call.index >= 1 /\ call.total_parts <= SentinelMax) =>
        WrapperChars <= calculate_part_overhead(call.part_template)

\* a part of a 999-part result whose three numbers have three digits: the
\* wrapper text is as long as the estimate
C27_Witness ==
    /\ call.total_parts = SentinelMax
    /\ call.index >= 100
    /\ call.part_template.header /= <<>>
    /\ call.part_template.footer /= <<>>
    /\ call.part_template.pending /= <<>>
    /\ WrapperChars = calculate_part_overhead(call.part_template)

(* ------------------------- C28 ----------------------------------------- *)
\* the origin records of the chunks in the open part
OpenOrigin == SubSeq(origin, Len(origin) - Len(current_part) + 1, Len(origin))

OpenHolds(k) == \E n \in 1..Len(OpenOrigin) : OpenOrigin[n].file = k

\* the running size as the claim states it, the sum of the contributions
\* of the chunks in the open part: every chunk with its newline, the header line if the part holds the first block, the
\* footer line if it holds the last block
OpenContributions ==
    SumSeq([n \in 1..Len(current_part) |-> CharCount(current_part[n])])
    + (IF OpenHolds(0) /\ header /= <<>> THEN CharCount(header) + 1 ELSE 0)
    + (IF OpenHolds(Len(files) - 1) /\ footer /= <<>> THEN CharCount(footer) + 1 ELSE 0)

\* C28: running-size accounting - after every planner step current_part_size
\* is the sum of the contributions of the chunks in the open part, also
\* right after a block is moved to a freshly opened part, and it is 0 when
\* the open part is empty
C28_RunningSize ==
    pc = "plan" =>
        /\ Len(current_part) <= Len(origin)
        /\ current_part_size = OpenContributions

(* ------------------------- C29 ----------------------------------------- *)
\* C29: no empty parts - every part of the plan, while it is built and when
\* it is returned, holds at least one chunk, and every assembled part holds
\* more than its wrapper text
C29_NoEmptyParts ==
    Planning =>
        /\ \A p \in 1..Len(parts) : parts[p] /= <<>>
        /\ pc = "done" =>
              \A k \in 1..Len(result) :
                  Len(result[k]) > Len(WrapperBefore(k)) + Len(WrapperAfter(k))

\* a block split by lines right at the start, and three parts or more
C29_Witness ==
    /\ pc = "done"
    /\ ~Unsplit
    /\ Len(result) >= 3
    /\ origin[1].split

(* ------------------------- C30 ----------------------------------------- *)
\* the lines of all blocks, in order
AllLines == Concat([k \in 1..Len(files) |-> Lines(files[k])])

\* C30: degenerate budget packing - when the content does not fit in one
\* part and the budget is below the estimated overhead, every block is
\* line-split with the chunk limit 0: each line of each block is alone in
\* its own part and there are as many parts as lines over all blocks
C30_DegeneratePacking ==
    (Planning /\ max_part_chars < part_overhead) =>
        /\ AboutToSplit => ChunkLimit = 0
        /\ \A j \in 1..Len(origin) : origin[j].split
        /\ pc \in {"assemble", "done"} =>
              parts = [j \in 1..Len(AllLines) |-> <<AllLines[j] \o <<NL>>>>]
        /\ pc = "done" => Len(result) = Len(AllLines)

\* a budget below the overhead, two blocks, one of them of two lines or more
C30_Witness ==
    /\ pc = "done"
    /\ ~Unsplit
    /\ max_part_chars < part_overhead
    /\ max_part_chars > 0
    /\ Len(files) = 2
    /\ Len(result) >= 3
    /\ \A k \in 1..Len(files) : Lines(files[k]) /= <<>>

====
